---- MODULE Spec2Model ----
(***************************************************************************)
(* Model of sca_check.py: the rule grammar (Rule.parse), the rule          *)
(* predicates and the pattern dialect (Rule, Regex), the three-valued rule *)
(* aggregator (Rules), the check record life cycle (Check.check_all /      *)
(* Check.check / Check.apply_solution) and the remediation action tree     *)
(* (Solution, SolutionActs, SolutionAct).                                  *)
(*                                                                         *)
(* Python values are written as strings: "True", "False", "None" for the   *)
(* tri-state outcomes, and PyEq models Python's == on the scalars an       *)
(* action can return or a document can declare.                            *)
(***************************************************************************)
EXTENDS Integers, Sequences, FiniteSets, TLC

VARIABLES
    pc,                   \* position of the single control thread in __main__ / check_all / apply_solution
    host,                 \* the machine the rules probe and the actions change
    condition,            \* Check.condition of every loaded check
    status,               \* Check.status of every loaded check
    passed,               \* Check.passed
    failed,               \* Check.failed
    not_applicable,       \* Check.not_applicable
    idx,                  \* check_all: index of the next check of the first pass
    available_solutions,  \* check_all: the list built after the first pass
    sidx,                 \* check_all: index into available_solutions
    retry,                \* apply_solution: the loop variable
    reboot_required,      \* the module-level flag
    exception,            \* what left check_all ("None" while nothing was raised)
    notice,               \* __main__: whether "Reboot is required" was printed
    evals,                \* history: completed Check.check calls per check
    lastOut,              \* history: what Rules.check returned in the latest call per check
    execs,                \* history: Solution.apply calls per check
    lastRun,              \* history: the primitives invoked by the latest Solution.apply
    exit,                 \* history: how apply_solution was left, per check
    prompts,              \* history: "Retry?" prompts shown per check
    retryAnswer,          \* history: the latest answer to "Retry?" per check
    rechecked,            \* history: a Check.check call followed the latest Solution.apply
    fixed,                \* history: the check's rules aggregate to True on the host as the latest Solution.apply left it
    hist,                 \* history: each check's status after its first evaluation, the answers to "Apply Available Solutions?" and to each "Apply?"
    arg,                  \* harness: the input of the pure function under check
    ret                   \* harness: its result ("pending" before the call)

runvars == <<pc, host, condition, status, passed, failed, not_applicable, idx,
             available_solutions, sidx, retry, reboot_required, exception, notice,
             evals, lastOut, execs, lastRun, exit, prompts, retryAnswer, rechecked,
             fixed, hist>>

vars == <<pc, host, condition, status, passed, failed, not_applicable, idx,
          available_solutions, sidx, retry, reboot_required, exception, notice,
          evals, lastOut, execs, lastRun, exit, prompts, retryAnswer, rechecked,
          fixed, hist, arg, ret>>

(***************************************************************************)
(* Bounds                                                                  *)
(***************************************************************************)
MaxRules == 3

RECURSIVE SeqsUpTo(_, _)
SeqsUpTo(S, n) ==
    IF n = 0 THEN {<<>>}
    ELSE LET shorter == SeqsUpTo(S, n - 1)
         IN  shorter \cup {Append(s, x) : s \in {t \in shorter : Len(t) = n - 1}, x \in S}

(***************************************************************************)
(* Rules.check: the three-valued aggregator                                *)
(***************************************************************************)
Outcomes == {"True", "False", "None"}

Conditions == {"all", "any", "none"}

\* A plausible slip in the "all" loop: `if not res: return False`, which takes a
\* NotApplicable outcome for a failure.
RECURSIVE all_loop_falsy(_, _, _)
all_loop_falsy(outs, i, na) ==
    IF i > Len(outs)
    THEN [res |-> IF na THEN "None" ELSE "True", probed |-> Len(outs)]
    ELSE IF outs[i] # "True"
         THEN [res |-> "False", probed |-> i]
         ELSE all_loop_falsy(outs, i + 1, na)

\* A plausible slip: the "all" loop remembers a False and goes on to the end
\* of the list instead of returning at once.
RECURSIVE all_loop_eager(_, _, _)
all_loop_eager(outs, i, na) ==
    IF i > Len(outs)
    THEN [res |-> IF \E k \in 1..Len(outs) : outs[k] = "False" THEN "False"
                  ELSE IF na THEN "None" ELSE "True",
          probed |-> Len(outs)]
    ELSE all_loop_eager(outs, i + 1, na \/ outs[i] = "None")

\* One pass of the `for rule in self.parsed` loop under "all": outs[i] is the
\* value rule.check() yields for the i-th rule of the evaluation order.  The
\* result carries the number of rules probed before the loop returned; na is
\* the loop's local flag not_applicable.
RECURSIVE all_loop(_, _, _)
all_loop(outs, i, na) ==
    IF i > Len(outs)
    THEN [res |-> IF na THEN "None" ELSE "True", probed |-> Len(outs)]
    ELSE IF outs[i] = "False"
         THEN [res |-> "False", probed |-> i]
         ELSE all_loop(outs, i + 1, na \/ outs[i] = "None")

\* A plausible slip in the "any" loop: a NotApplicable outcome returned at
\* once, so that the result depends on where it stands in the list.
RECURSIVE any_loop_none_returns(_, _, _)
any_loop_none_returns(outs, i, na) ==
    IF i > Len(outs)
    THEN [res |-> "False", probed |-> Len(outs)]
    ELSE IF outs[i] = "True"
         THEN [res |-> "True", probed |-> i]
         ELSE IF outs[i] = "None"
         THEN [res |-> "None", probed |-> i]
         ELSE any_loop_none_returns(outs, i + 1, na)

RECURSIVE any_loop(_, _, _)
any_loop(outs, i, na) ==
    IF i > Len(outs)
    THEN [res |-> IF na THEN "None" ELSE "False", probed |-> Len(outs)]
    ELSE IF outs[i] = "True"
         THEN [res |-> "True", probed |-> i]
         ELSE any_loop(outs, i + 1, na \/ outs[i] = "None")

RECURSIVE none_loop(_, _, _)
none_loop(outs, i, na) ==
    IF i > Len(outs)
    THEN [res |-> IF na THEN "None" ELSE "True", probed |-> Len(outs)]
    ELSE IF outs[i] = "True"
         THEN [res |-> "False", probed |-> i]
         ELSE none_loop(outs, i + 1, na \/ outs[i] = "None")

\* A plausible slip: the last branch a plain `else`, so that an unknown
\* condition is evaluated as "none".
Rules_check_else_none(cond, outs) ==
    IF cond = "all" THEN all_loop(outs, 1, FALSE)
    ELSE IF cond = "any" THEN any_loop(outs, 1, FALSE)
    ELSE none_loop(outs, 1, FALSE)

Rules_check(cond, outs) ==
    IF cond = "all" THEN all_loop(outs, 1, FALSE)
    ELSE IF cond = "any" THEN any_loop(outs, 1, FALSE)
    ELSE IF cond = "none" THEN none_loop(outs, 1, FALSE)
    ELSE [res |-> "ValueError", probed |-> 0]

(***************************************************************************)
(* Rule.parse and Rules.__init__: the evaluation order                     *)
(***************************************************************************)
\* A rule string is kept by its shape: the selector of its first part, the
\* number of "->"-separated patterns after it, and whether it starts "not ".
Selectors == {"f", "d", "c", "p", "r", "x"}

\* A rule string as its lexemes: "not ", the selectors, a target or pattern
\* character "t", a blank and the separator "->".
RuleTokens == {"not ", "f:", "d:", "c:", "p:", "r:", "x:", "t", " ", "->"}

\* str.split("->"): the parts between the separators.
RECURSIVE split_arrow(_, _, _)
split_arrow(tokens, i, part) ==
    IF i > Len(tokens) THEN <<part>>
    ELSE IF tokens[i] = "->" THEN <<part>> \o split_arrow(tokens, i + 1, <<>>)
    ELSE split_arrow(tokens, i + 1, Append(part, tokens[i]))

\* str.strip(): the blanks at both ends go, also the one that ends "not ".
RECURSIVE lstrip(_)
lstrip(part) ==
    IF part # <<>> /\ part[1] = " " THEN lstrip(Tail(part)) ELSE part

RECURSIVE rstrip(_)
rstrip(part) ==
    IF part = <<>> THEN part
    ELSE IF part[Len(part)] = " " THEN rstrip(SubSeq(part, 1, Len(part) - 1))
    ELSE IF part[Len(part)] = "not " THEN [part EXCEPT ![Len(part)] = "not"]
    ELSE part

strip(part) == rstrip(lstrip(part))

\* The head of Rule.parse: split, strip, take "not " off rule[0], and find
\* the selector to_check starts with.
Rule_split(tokens) ==
    LET rule     == [k \in 1..Len(split_arrow(tokens, 1, <<>>)) |->
                        strip(split_arrow(tokens, 1, <<>>)[k])]
        revert   == rule[1] # <<>> /\ rule[1][1] = "not "
        to_check == IF revert THEN Tail(rule[1]) ELSE rule[1]
        sel      == IF to_check = <<>> THEN "x"
                    ELSE CASE to_check[1] = "f:" -> "f"
                           [] to_check[1] = "c:" -> "c"
                           [] to_check[1] = "d:" -> "d"
                           [] to_check[1] = "p:" -> "p"
                           [] to_check[1] = "r:" -> "r"
                           [] OTHER -> "x"
    IN  [sel |-> sel, npat |-> Len(rule) - 1, neg |-> revert, target |-> "conf"]

\* A plausible slip: the command rule accepts any number of patterns.
Rule_parse_c_any(rule) ==
    LET len == rule.npat + 1
    IN  IF rule.sel = "f"
        THEN IF len = 1 THEN "FileExistence"
             ELSE IF len = 2 THEN "RegexAgainstFile"
             ELSE "ValueError"
        ELSE IF rule.sel = "c"
        THEN IF len >= 2 THEN "RegexAgainstCommand" ELSE "ValueError"
        ELSE IF rule.sel = "d"
        THEN IF len = 1 THEN "DirExistence"
             ELSE IF len = 2 THEN "DirContains"
             ELSE IF len = 3 THEN "RegexAgainstDir"
             ELSE "ValueError"
        ELSE IF rule.sel = "p"
        THEN IF len = 1 THEN "CheckProcessExists" ELSE "ValueError"
        ELSE "ValueError"

\* Rule.parse: the tag of the ParsedRule, or "ValueError" where parse raises.
Rule_parse(rule) ==
    LET len == rule.npat + 1
    IN  IF rule.sel = "f"
        THEN IF len = 1 THEN "FileExistence"
             ELSE IF len = 2 THEN "RegexAgainstFile"
             ELSE "ValueError"
        ELSE IF rule.sel = "c"
        THEN IF len = 2 THEN "RegexAgainstCommand" ELSE "ValueError"
        ELSE IF rule.sel = "d"
        THEN IF len = 1 THEN "DirExistence"
             ELSE IF len = 2 THEN "DirContains"
             ELSE IF len = 3 THEN "RegexAgainstDir"
             ELSE "ValueError"
        ELSE IF rule.sel = "p"
        THEN IF len = 1 THEN "CheckProcessExists" ELSE "ValueError"
        ELSE "ValueError"

\* Rule.__init__: parse errors are caught and leave parsed = None.  pos is the
\* rule's place in the input list (the identity of the Rule object).
Rule_init(rule, pos) ==
    LET tag == Rule_parse(rule)
    IN  [rule   |-> rule,
         pos    |-> pos,
         parsed |-> IF tag = "ValueError" THEN "None" ELSE tag,
         revert |-> rule.neg]

is_existence_check(r) ==
    r.parsed # "None" /\ r.parsed \in {"FileExistence", "DirExistence", "DirContains"}

non_existence_check(r) == ~is_existence_check(r)

\* A plausible slip: the two lists concatenated the other way round.
Rules_init_swapped(rules) ==
    LET objs == [i \in 1..Len(rules) |-> Rule_init(rules[i], i)]
    IN  SelectSeq(objs, non_existence_check) \o SelectSeq(objs, is_existence_check)

\* Rules.__init__: self.parsed = existence_check_rules + non_existence_check_rules
Rules_init(rules) ==
    LET objs == [i \in 1..Len(rules) |-> Rule_init(rules[i], i)]
    IN  SelectSeq(objs, is_existence_check) \o SelectSeq(objs, non_existence_check)

(***************************************************************************)
(* The host: what the rule predicates probe and the actions change         *)
(***************************************************************************)
Paths == {"conf"}

Procs == {"daemon"}

FsTypes == {"absent", "file", "dir"}

\* The commands of the `c:` rules: a simple command, and a pipeline whose first
\* stage is the one that may run long.
ProbeCmds == {"probe", "probe | filter"}

IsPipeline(cmd) == cmd = "probe | filter"

\* fs: what is at each path; good: the files whose content the pattern of the
\* policy's content rules matches; procs: the names in the process table;
\* holds: the directories that list a regular file whose name the file pattern
\* matches; holdsgood: those where such a file has matching content; shell:
\* whether popen can start a shell; cmd: what the probe command prints, or
\* "slow" when its first stage runs past the timeout.
ProbeHosts ==
    {h \in [fs : [Paths -> FsTypes], good : SUBSET Paths, procs : SUBSET Procs,
            holds : SUBSET Paths, holdsgood : SUBSET Paths,
            shell : {"ok", "fail"}, cmd : {"match", "nomatch", "slow"}] :
        /\ \A p \in h.good : h.fs[p] = "file"
        /\ \A p \in h.holds : h.fs[p] = "dir"
        /\ h.holdsgood \subseteq h.holds}

\* The hosts of the run: a working shell, empty directories.
Hosts ==
    {h \in ProbeHosts : h.shell = "ok" /\ h.cmd = "nomatch" /\ h.holds = {}}

Bool(b) == IF b THEN "True" ELSE "False"

\* execute(cmd, timeout) as the probes call it: popen may fail; with a timeout
\* the shell line is `timeout N cmd 2>&1; [ $? -eq 124 ] && echo "BASH_TIMEOUT"`,
\* where $? is the status of the last stage of cmd, so TimeoutError is raised
\* only when that stage is the one `timeout` killed; a pipeline whose first
\* stage was killed returns the output printed so far.
execute_probe(cmd, timeout, h) ==
    IF h.shell = "fail" THEN "raise"
    ELSE IF h.cmd = "slow"
    THEN IF timeout > 0 /\ ~IsPipeline(cmd) THEN "raise" ELSE "nomatch"
    ELSE h.cmd

\* The predicates return "True" or "False", or "raise" where the code raises.
check_regex_against_command(cmd, h) ==
    LET out == execute_probe(cmd, 10, h)
    IN  IF out = "raise" THEN "raise" ELSE Bool(out = "match")

check_process_exists(process_name, h) ==
    IF h.shell = "fail" THEN "raise" ELSE Bool(process_name \in h.procs)

\* A plausible slip: the directory test left out, so that any path that exists
\* counts as a file.
check_file_exists_any(path, h) ==
    IF h.fs[path] # "absent" THEN "True" ELSE "False"

check_file_exists(path, h) ==
    IF h.fs[path] # "absent"
    THEN IF h.fs[path] = "dir" THEN "raise" ELSE "True"
    ELSE "False"

check_regex_against_file(path, h) ==
    IF h.fs[path] = "absent" THEN "raise"
    ELSE IF h.fs[path] = "dir" THEN "raise"
    ELSE Bool(path \in h.good)

check_dir_exists(path, h) ==
    IF h.fs[path] # "absent"
    THEN IF h.fs[path] # "dir" THEN "raise" ELSE "True"
    ELSE "False"

check_dir_contains(path, h) ==
    IF h.fs[path] = "absent" THEN "raise"
    ELSE IF h.fs[path] # "dir" THEN "raise"
    ELSE Bool(path \in h.holds)

check_regex_against_dir(path, h) ==
    IF h.fs[path] = "absent" THEN "raise"
    ELSE IF h.fs[path] # "dir" THEN "raise"
    ELSE Bool(path \in h.holdsgood)

\* self.parsed.function(**self.parsed.kwargs)
ParsedRule_function(r, h) ==
    CASE r.parsed = "FileExistence"       -> check_file_exists(r.rule.target, h)
      [] r.parsed = "RegexAgainstFile"    -> check_regex_against_file(r.rule.target, h)
      [] r.parsed = "DirExistence"        -> check_dir_exists(r.rule.target, h)
      [] r.parsed = "DirContains"         -> check_dir_contains(r.rule.target, h)
      [] r.parsed = "RegexAgainstDir"     -> check_regex_against_dir(r.rule.target, h)
      [] r.parsed = "RegexAgainstCommand" -> check_regex_against_command(r.rule.target, h)
      [] r.parsed = "CheckProcessExists"  -> check_process_exists(r.rule.target, h)

\* A plausible slip: the predicate's exception caught around the call only, so
\* that `not` is applied to the None that stands for it.
Rule_check_not_none(r, h) ==
    IF r.parsed = "None" THEN "True"
    ELSE LET res == ParsedRule_function(r, h)
         IN  IF r.revert THEN Bool(res # "True")
             ELSE IF res = "raise" THEN "None"
             ELSE res

\* Rule.check: an unparsed rule is True; an exception of the predicate is
\* caught and the method falls off its end (None); revert applies `not`.
Rule_check(r, h) ==
    IF r.parsed = "None" THEN "True"
    ELSE LET res == ParsedRule_function(r, h)
         IN  IF res = "raise" THEN "None"
             ELSE IF r.revert THEN Bool(res # "True")
             ELSE res

(***************************************************************************)
(* Regex: the pattern dialect                                              *)
(***************************************************************************)
\* A pattern is kept as its chains (the parts between "&&", stripped), a chain
\* as its prefix (kind), the characters of its expression (body) and, for an
\* "n:" chain, the operator and the number after "compare".  Texts are lists
\* of lines, a line is a list of characters.  The expressions are written
\* with "x", ".", the backslash and the group "(\d+)", which stands as one
\* element; the dialect's "*" and class escapes are not in this alphabet.
PatChars == {"x", ".", "\\"}

LineChars == {"x", ".", "3", "5", "7"}

Digits == {"3", "5", "7"}

\* A plausible slip: the placeholder step left out, so that every dot of the
\* pattern, escaped or not, ends up escaped.
RECURSIVE replace_dots_all_literal(_)
replace_dots_all_literal(s) ==
    IF s = <<>> THEN <<>>
    ELSE IF Len(s) >= 2 /\ s[1] = "\\" /\ s[2] = "."
    THEN <<"\\", ".">> \o replace_dots_all_literal(SubSeq(s, 3, Len(s)))
    ELSE IF s[1] = "."
    THEN <<"\\", ".">> \o replace_dots_all_literal(Tail(s))
    ELSE <<s[1]>> \o replace_dots_all_literal(Tail(s))

\* .replace("\\.", "REGEX_DOT").replace(".", "\\.").replace("REGEX_DOT", "."):
\* an escaped dot becomes a bare dot and a bare dot an escaped one.
RECURSIVE replace_dots(_)
replace_dots(s) ==
    IF s = <<>> THEN <<>>
    ELSE IF Len(s) >= 2 /\ s[1] = "\\" /\ s[2] = "."
    THEN <<".">> \o replace_dots(SubSeq(s, 3, Len(s)))
    ELSE IF s[1] = "."
    THEN <<"\\", ".">> \o replace_dots(Tail(s))
    ELSE <<s[1]>> \o replace_dots(Tail(s))

\* Regex.__init__: self.chains, every chain preprocessed.
Regex_init(pattern) ==
    [k \in 1..Len(pattern) |-> [pattern[k] EXCEPT !.body = replace_dots(@)]]

\* re's reading of an expression: "x" is itself, a bare dot any character, an
\* escaped dot a dot, an escaped backslash a backslash, "(\d+)" a group of
\* digits; any other escape and a backslash at the end are re.error.
RECURSIVE re_compile(_)
re_compile(s) ==
    IF s = <<>> THEN [ok |-> TRUE, atoms |-> <<>>]
    ELSE IF s[1] = "\\"
    THEN IF Len(s) >= 2 /\ s[2] \in {".", "\\"}
         THEN LET rest == re_compile(SubSeq(s, 3, Len(s)))
              IN  IF rest.ok
                  THEN [ok |-> TRUE,
                        atoms |-> <<IF s[2] = "." THEN "DOT" ELSE "BSL">> \o rest.atoms]
                  ELSE rest
         ELSE [ok |-> FALSE, atoms |-> <<>>]
    ELSE LET rest == re_compile(Tail(s))
         IN  IF rest.ok
             THEN [ok |-> TRUE,
                   atoms |-> <<CASE s[1] = "." -> "ANY"
                                 [] s[1] = "(\\d+)" -> "CAP"
                                 [] OTHER -> s[1]>> \o rest.atoms]
             ELSE rest

atom_accepts(a, c) ==
    CASE a = "ANY" -> TRUE
      [] a = "DOT" -> c = "."
      [] a = "BSL" -> c = "\\"
      [] OTHER     -> c = a

RECURSIVE digit_run(_, _)
digit_run(line, i) ==
    IF i <= Len(line) /\ line[i] \in Digits THEN 1 + digit_run(line, i + 1) ELSE 0

\* re's backtracking match of atoms[k..] at position i of the line; a group
\* takes as many digits as the rest of the expression allows.
RECURSIVE match_here(_, _, _, _)
RECURSIVE cap_try(_, _, _, _, _)
match_here(atoms, k, line, i) ==
    IF k > Len(atoms) THEN [ok |-> TRUE, end |-> i - 1, cap |-> <<>>]
    ELSE IF atoms[k] = "CAP" THEN cap_try(atoms, k, line, i, digit_run(line, i))
    ELSE IF i <= Len(line) /\ atom_accepts(atoms[k], line[i])
    THEN match_here(atoms, k + 1, line, i + 1)
    ELSE [ok |-> FALSE, end |-> 0, cap |-> <<>>]

cap_try(atoms, k, line, i, n) ==
    IF n = 0 THEN [ok |-> FALSE, end |-> 0, cap |-> <<>>]
    ELSE LET m == match_here(atoms, k + 1, line, i + n)
         IN  IF m.ok
             THEN [ok |-> TRUE, end |-> m.end, cap |-> SubSeq(line, i, i + n - 1)]
             ELSE cap_try(atoms, k, line, i, n - 1)

\* re.findall(expression, line): found says the list is not empty; whole and
\* cap are the text and the first group of the leftmost match.
re_findall(atoms, line) ==
    LET starts == {i \in 1..(Len(line) + 1) : match_here(atoms, 1, line, i).ok}
    IN  IF starts = {} THEN [found |-> FALSE, whole |-> <<>>, cap |-> <<>>]
        ELSE LET i == CHOOSE s \in starts : \A t \in starts : s <= t
                 m == match_here(atoms, 1, line, i)
             IN  [found |-> TRUE, whole |-> SubSeq(line, i, m.end), cap |-> m.cap]

\* The operators "compare" may name; "<>" is one the chain's grammar lets
\* through and Regex.ops does not hold.
CompareOps == {"<", "<=", "=<", "==", "!=", "=>", ">=", ">", "<>"}

\* A plausible slip: ">" bound to operator.ge.
Regex_ops_gt_as_ge(op, a, b) ==
    CASE op = "<"  -> a < b
      [] op = "<=" -> a <= b
      [] op = "=<" -> a <= b
      [] op = "==" -> a = b
      [] op = "!=" -> a # b
      [] op = "=>" -> a >= b
      [] op = ">=" -> a >= b
      [] op = ">"  -> a >= b

\* Regex.ops
Regex_ops(op, a, b) ==
    CASE op = "<"  -> a < b
      [] op = "<=" -> a <= b
      [] op = "=<" -> a <= b
      [] op = "==" -> a = b
      [] op = "!=" -> a # b
      [] op = "=>" -> a >= b
      [] op = ">=" -> a >= b
      [] op = ">"  -> a > b

\* int(str) on a string of digits.
RECURSIVE to_int(_)
to_int(s) ==
    IF s = <<>> THEN 0
    ELSE 10 * to_int(SubSeq(s, 1, Len(s) - 1))
         + (CASE s[Len(s)] = "3" -> 3 [] s[Len(s)] = "5" -> 5 [] s[Len(s)] = "7" -> 7)

IsNumber(s) == s # <<>> /\ \A k \in 1..Len(s) : s[k] \in Digits

\* One chain of Regex.check on one line: "True" where the loop goes on to the
\* next chain, "False" where it breaks, "raise" where an exception leaves
\* check (re.error, KeyError of ops, ValueError or TypeError of int).
chain_check(chain, line) ==
    LET c      == re_compile(chain.body)
        value  == re_findall(c.atoms, line)
        groups == Cardinality({k \in 1..Len(c.atoms) : c.atoms[k] = "CAP"})
        first  == IF groups = 0 THEN value.whole ELSE value.cap
    IN  CASE chain.kind = "r:" ->
                IF ~c.ok THEN "raise" ELSE Bool(value.found)
          [] chain.kind = "!r:" ->
                IF ~c.ok THEN "raise" ELSE Bool(~value.found)
          [] chain.kind = "n:" ->
                IF ~c.ok THEN "raise"
                ELSE IF ~value.found THEN "False"
                ELSE IF chain.op = "<>" \/ groups > 1 \/ ~IsNumber(first) THEN "raise"
                ELSE Bool(Regex_ops(chain.op, to_int(first), chain.std))
          [] chain.kind = "" -> Bool(chain.body = line)

\* The inner loop: the chains from the k-th on against one line.
RECURSIVE line_check(_, _, _)
line_check(chains, k, line) ==
    IF k > Len(chains) THEN "True"
    ELSE LET r == chain_check(chains[k], line)
         IN  IF r = "True" THEN line_check(chains, k + 1, line) ELSE r

\* A plausible slip: every chain looked for in the whole text, so that chains
\* met by different lines add up to a match.
RECURSIVE Regex_check_per_chain(_, _, _)
Regex_check_per_chain(chains, text, j) ==
    IF \E k \in 1..Len(chains), l \in 1..Len(text) : chain_check(chains[k], text[l]) = "raise"
    THEN "raise"
    ELSE Bool(\A k \in 1..Len(chains) :
                 \E l \in 1..Len(text) : chain_check(chains[k], text[l]) = "True")

\* Regex.check: the lines of text.split("\n") from the j-th on; True at the
\* first line all chains hold on, False after the last line.
RECURSIVE Regex_check(_, _, _)
Regex_check(chains, text, j) ==
    IF j > Len(text) THEN "False"
    ELSE LET r == line_check(chains, 1, text[j])
         IN  IF r = "True" THEN "True"
             ELSE IF r = "raise" THEN "raise"
             ELSE Regex_check(chains, text, j + 1)

(***************************************************************************)
(* The loaded policy                                                       *)
(***************************************************************************)
NoOnResponse == <<>>

\* The longest argument list of an act's document.
MaxArgs == 4

Act(id, function, cmd, ask, on_response) ==
    [id |-> id, function |-> function, cmd |-> cmd, ask |-> ask, on_response |-> on_response]

\* Check 1: the configuration file must exist and hold the expected line.  The
\* plan creates the file after asking, asks whether to write the line, writes
\* it on True and shows a note when the write printed nothing; on 0 it shows
\* another note.
Solution1 ==
    [given |-> TRUE, recheck |-> "absent",
     acts |-> <<
        Act(1, "execute", "touch conf", "absent", NoOnResponse),
        Act(2, "confirm", "", "absent", <<
            [value |-> "True", acts |-> <<
                Act(3, "execute", "echo ok > conf", "False", <<
                    [value |-> "''", acts |-> <<
                        Act(4, "note", "", "absent", NoOnResponse) >>] >>) >>],
            [value |-> "0", acts |-> <<
                Act(5, "note", "", "absent", NoOnResponse) >>] >>) >>]

\* An act whose document gives nargs positional arguments.
ActArgs(id, function, nargs, on_response) ==
    [id |-> id, function |-> function, cmd |-> "", ask |-> "absent",
     on_response |-> on_response, nargs |-> nargs]

\* Check 2: the daemon must not run.  The plan offers to stop it or to reboot;
\* for the answer 2 it has a note whose document gives the title only.
Solution2 ==
    [given |-> TRUE, recheck |-> "False",
     acts |-> <<
        Act(6, "choose", "", "absent", <<
            [value |-> "0", acts |-> <<
                Act(7, "execute", "pkill daemon", "False", NoOnResponse) >>],
            [value |-> "1", acts |-> <<
                Act(8, "set_reboot_required", "", "absent", NoOnResponse) >>],
            [value |-> "2", acts |-> <<
                ActArgs(10, "note", 1, NoOnResponse) >>] >>) >>]

\* Check 3: conf must not be a directory.  The plan moves the directory away
\* and leaves a file in its place.
Solution3 ==
    [given |-> TRUE, recheck |-> "True",
     acts |-> <<
        Act(9, "execute", "mv conf conf.d; touch conf", "absent", NoOnResponse) >>]

\* A check for which neither document holds a solution: check["solution"] = None.
NoSolution == [given |-> FALSE]

RuleDoc(sel, npat, neg, target) == [sel |-> sel, npat |-> npat, neg |-> neg, target |-> target]

Policy ==
    << [id |-> 1, rules |-> << RuleDoc("f", 1, FALSE, "conf"), RuleDoc("f", 0, FALSE, "conf") >>,
        solution |-> Solution1],
       [id |-> 2, rules |-> << RuleDoc("p", 0, FALSE, "daemon") >>,
        solution |-> Solution2],
       [id |-> 3, rules |-> << RuleDoc("d", 0, TRUE, "conf") >>,
        solution |-> Solution3],
       [id |-> 4, rules |-> << RuleDoc("p", 0, FALSE, "daemon") >>,
        solution |-> NoSolution] >>

CheckIds == 1..Len(Policy)

\* The conditions the policy document may give the checks: the third is "any"
\* or a word that is no condition.
PolicyConditions ==
    {c \in [CheckIds -> Conditions \cup {"sometimes"}] :
        c[1] = "all" /\ c[2] = "none" /\ c[3] \in {"any", "sometimes"} /\ c[4] = "all"}

\* Check.__init__: self.rules = Rules(self.id, self.condition, check["rules"])
Check_rules(c) == Rules_init(Policy[c].rules)

\* self.rules.check() on host h: every rule.check() in evaluation order, then
\* the aggregation.
Check_rules_check(c, cond, h) ==
    LET parsed == Check_rules(c)
    IN  Rules_check(cond, [i \in 1..Len(parsed) |-> Rule_check(parsed[i], h)])

(***************************************************************************)
(* Check.check                                                             *)
(***************************************************************************)
\* A plausible slip: the NotApplicable branch tested with `elif not res`, so it
\* is never reached after `elif res is False` and a None result keeps the old
\* status and joins no partition.
Check_check_no_none(c, res, s) ==
    IF res = "True"
    THEN [s EXCEPT !.status[c] = "PASSED", !.passed = Append(@, c)]
    ELSE IF res = "False"
    THEN [s EXCEPT !.status[c] = "FAILED", !.failed = Append(@, c)]
    ELSE s

\* The effect of Check.check on the record's status and the three class-level
\* lists, for the value res that self.rules.check() returned.
Check_check(c, res, s) ==
    IF res = "True"
    THEN [s EXCEPT !.status[c] = "PASSED", !.passed = Append(@, c)]
    ELSE IF res = "False"
    THEN [s EXCEPT !.status[c] = "FAILED", !.failed = Append(@, c)]
    ELSE IF res = "None"
    THEN [s EXCEPT !.status[c] = "NOT_APPLICABLE", !.not_applicable = Append(@, c)]
    ELSE s

ClassState ==
    [status |-> status, passed |-> passed, failed |-> failed,
     not_applicable |-> not_applicable]

\* One completed call of check c's Check.check with aggregator result res.
Evaluated(c, res) ==
    LET s == Check_check(c, res, ClassState)
    IN  /\ status' = s.status
        /\ passed' = s.passed
        /\ failed' = s.failed
        /\ not_applicable' = s.not_applicable
        /\ evals' = [evals EXCEPT ![c] = @ + 1]
        /\ lastOut' = [lastOut EXCEPT ![c] = res]
        /\ rechecked' = [rechecked EXCEPT ![c] = TRUE]

(***************************************************************************)
(* Solution, SolutionActs, SolutionAct                                     *)
(***************************************************************************)
RECURSIVE SolutionActs_init(_)
\* A plausible slip: no setdefault, so that execute's own default ask=False
\* applies to an act that sets no `ask`.
SolutionAct_init_no_default(act) ==
    [id          |-> act.id,
     function    |-> act.function,
     cmd         |-> act.cmd,
     nargs       |-> IF "nargs" \in DOMAIN act THEN <<act.nargs>> ELSE <<>>,
     ask         |-> IF act.function = "execute" /\ act.ask = "absent" THEN "False" ELSE act.ask,
     on_response |-> [k \in 1..Len(act.on_response) |->
                        [value |-> act.on_response[k].value,
                         acts  |-> SolutionActs_init(act.on_response[k].acts)]]]

\* SolutionAct.__init__ and SolutionActs.__init__: an execute act that sets no
\* `ask` gets ask=True; the nested documents are parsed the same way.  The
\* arguments are kept as the document gives them (nargs: their number, when
\* the document of the model states it).
SolutionAct_init(act) ==
    [id          |-> act.id,
     function    |-> act.function,
     cmd         |-> act.cmd,
     nargs       |-> IF "nargs" \in DOMAIN act THEN <<act.nargs>> ELSE <<>>,
     ask         |-> IF act.function = "execute" /\ act.ask = "absent" THEN "True" ELSE act.ask,
     on_response |-> [k \in 1..Len(act.on_response) |->
                        [value |-> act.on_response[k].value,
                         acts  |-> SolutionActs_init(act.on_response[k].acts)]]]

SolutionActs_init(acts) == [i \in 1..Len(acts) |-> SolutionAct_init(acts[i])]

\* The names SolutionAct.decorate can look up in globals(): the seven
\* functions the Solution Model lists, other callables of the module (the
\* imported os.system and os.popen among them) and names that are not
\* callable.  "reboot" is no name of the module.
Primitives ==
    {"execute", "confirm", "note", "choose", "nano", "set_reboot_required", "backup"}

OtherCallables == {"system", "popen"}

NotCallables == {"reboot_required"}

\* SolutionAct.decorate: globals()[self.function], then callable(function).
decorate(function) ==
    IF function \notin Primitives \cup OtherCallables \cup NotCallables THEN "KeyError"
    ELSE IF function \in NotCallables THEN "ValueError"
    ELSE "caller"

\* SolutionActs.__init__ raises when an act of the tree has no "function"
\* (KeyError), when decorate raises for it, or when an on_response entry has
\* no "value" or no "acts" (KeyError).
RECURSIVE SolutionActs_raises(_)
SolutionActs_raises(acts) ==
    \E i \in 1..Len(acts) :
        \/ "function" \notin DOMAIN acts[i]
        \/ /\ "function" \in DOMAIN acts[i]
           /\ \/ decorate(acts[i].function) # "caller"
              \/ \E k \in 1..Len(acts[i].on_response) :
                    \/ "value" \notin DOMAIN acts[i].on_response[k]
                    \/ "acts" \notin DOMAIN acts[i].on_response[k]
                    \/ /\ "acts" \in DOMAIN acts[i].on_response[k]
                       /\ SolutionActs_raises(acts[i].on_response[k].acts)

\* A document that is a YAML mapping has "get" and keys; one that is a list
\* (the acts written directly under `solution:`) has neither.
IsMapping(solution) == "list" \notin DOMAIN solution

\* solution.get("recheck", True)
Solution_recheck(solution) ==
    IF "recheck" \notin DOMAIN solution \/ solution.recheck = "absent"
    THEN "True" ELSE solution.recheck

\* Solution.__init__: recheck = solution.get("recheck", True), outside the
\* try: a document without "get" raises AttributeError out of the
\* constructor.  An exception of SolutionActs(check_id, solution["acts"]) is
\* caught and leaves acts = None; without a document recheck and acts are
\* None (acts_is_none says that acts is None).
Solution_init(solution) ==
    IF solution.given
    THEN IF ~IsMapping(solution)
         THEN [exc |-> "AttributeError", recheck |-> "unset", acts |-> <<>>,
               acts_is_none |-> TRUE]
         ELSE IF "acts" \notin DOMAIN solution
         THEN [exc |-> "None", recheck |-> Solution_recheck(solution), acts |-> <<>>,
               acts_is_none |-> TRUE]
         ELSE IF SolutionActs_raises(solution.acts)
         THEN [exc |-> "None", recheck |-> Solution_recheck(solution), acts |-> <<>>,
               acts_is_none |-> TRUE]
         ELSE [exc |-> "None", recheck |-> Solution_recheck(solution),
               acts |-> SolutionActs_init(solution.acts),
               acts_is_none |-> FALSE]
    ELSE [exc |-> "None", recheck |-> "None", acts |-> <<>>, acts_is_none |-> TRUE]

Check_solution(c) == Solution_init(Policy[c].solution)

\* Solution.available
Solution_available(c) == ~Check_solution(c).acts_is_none

\* Python's == on the scalars that meet in SolutionAct.apply: the values are
\* "True"/"False" (bool), "0"/"1"/"2" (int), "None" and quoted strings; bool is
\* a subclass of int, so True == 1 and False == 0.
PyEq(a, b) ==
    \/ a = b
    \/ {a, b} = {"True", "1"}
    \/ {a, b} = {"False", "0"}

\* What a shell command does to the host and what it prints.
RunCmd(cmd, h) ==
    CASE cmd = "touch conf" ->
            [host |-> IF h.fs["conf"] = "absent"
                      THEN [h EXCEPT !.fs["conf"] = "file"] ELSE h,
             out |-> "''"]
      [] cmd = "echo ok > conf" ->
            IF h.fs["conf"] = "dir"
            THEN [host |-> h, out |-> "'err'"]
            ELSE [host |-> [h EXCEPT !.fs["conf"] = "file", !.good = @ \cup {"conf"}],
                  out |-> "''"]
      [] cmd = "mv conf conf.d; touch conf" ->
            [host |-> IF h.fs["conf"] = "file" THEN h
                      ELSE [h EXCEPT !.fs["conf"] = "file",
                                     !.holds = @ \ {"conf"},
                                     !.holdsgood = @ \ {"conf"}],
             out |-> "''"]
      [] cmd = "pkill daemon" ->
            [host |-> [h EXCEPT !.procs = @ \ {"daemon"}], out |-> "''"]

\* The state an action tree runs in: the host, the reboot flag, the exception
\* in flight ("None" when there is none), the primitives invoked so far, each
\* with what it returned, and the "Execute?" prompts shown so far.
Returned(st, act, resp) ==
    [resp |-> resp, st |-> [st EXCEPT !.trace = Append(@, [id |-> act.id, resp |-> resp])]]

Interrupted(st, act) ==
    [resp |-> "None",
     st |-> [st EXCEPT !.exc = "KeyboardInterrupt",
                       !.trace = Append(@, [id |-> act.id, resp |-> "KeyboardInterrupt"])]]

\* An exception e leaves the primitive.
Raises(st, act, e) ==
    [resp |-> "None",
     st |-> [st EXCEPT !.exc = e, !.trace = Append(@, [id |-> act.id, resp |-> e])]]

\* The "Execute?" prompt of an execute act, the answer to it and whether the
\* command was run after it, noted in the order of the prompts.
Asked(st, act, answer, ran) ==
    [st EXCEPT !.asked = Append(@, [id |-> act.id, prompt |-> act.cmd,
                                    answer |-> answer, ran |-> ran])]

\* execute(cmd, ask): with ask, confirm(None, "<cmd>\nExecute?") first and
\* return "" when declined; else popen runs the command and its output is
\* returned.
execute(act, st) ==
    LET run == RunCmd(act.cmd, st.host)
    IN  IF act.ask = "True"
        THEN {Returned(Asked([st EXCEPT !.host = run.host], act, "y", TRUE), act, run.out),
              Returned(Asked(st, act, "n", FALSE), act, "''"),
              Interrupted(Asked(st, act, "^C", FALSE), act)}
        ELSE {Returned([st EXCEPT !.host = run.host], act, run.out)}

\* confirm(title, prompt): True, False, or the user's interrupt re-raised.
confirm(act, st) ==
    {Returned(st, act, "True"), Returned(st, act, "False"), Interrupted(st, act)}

\* choose(title, prompt, *choices) with two choices: the number typed (also
\* when it is no index of choices), None when no number was typed.
choose(act, st) ==
    {Returned(st, act, n) : n \in {"0", "1", "2", "None"}} \cup {Interrupted(st, act)}

\* A plausible slip: the flag set by another primitive as well.
note_marks_reboot(act, st) == {Returned([st EXCEPT !.reboot = TRUE], act, "None")}

note(act, st) == {Returned(st, act, "None")}

set_reboot_required(act, st) == {Returned([st EXCEPT !.reboot = TRUE], act, "None")}

\* nano(file, prompt): after a confirmation the editor runs on the file; what
\* the user leaves in it may or may not be what the rules look for.
nano(act, st) ==
    {Returned(st, act, "None"), Interrupted(st, act)}
    \cup (IF st.host.fs[act.cmd] = "dir" THEN {}
          ELSE {Returned([st EXCEPT !.host.fs[act.cmd] = "file",
                                    !.host.good = @ \cup {act.cmd}], act, "None")})

\* backup(path): nothing for a path that does not exist; else a note and
\* execute("cp -r ...", ask=True), whose copy is no path the rules look at.
backup(act, st) ==
    IF st.host.fs[act.cmd] = "absent" THEN {Returned(st, act, "None")}
    ELSE {Returned(st, act, "None"), Interrupted(st, act)}

\* os.system(cmd): the command runs, unasked; the exit status is returned.
system(act, st) ==
    {Returned([st EXCEPT !.host = RunCmd(act.cmd, st.host).host], act, "0")}

\* os.popen(cmd): the command runs, unasked; the pipe object is returned.
popen(act, st) ==
    {Returned([st EXCEPT !.host = RunCmd(act.cmd, st.host).host], act, "<pipe>")}

\* The numbers of positional arguments the signatures of the primitives take:
\* execute(cmd, ask=False, timeout=0), confirm(title, prompt),
\* note(title, prompt), choose(title, prompt, *choices), nano(file, prompt),
\* set_reboot_required(), backup(path); os.system(command) and
\* os.popen(cmd, mode, buffering).
Arity(function) ==
    CASE function = "execute"             -> 1..3
      [] function = "confirm"             -> {2}
      [] function = "note"                -> {2}
      [] function = "choose"              -> 2..MaxArgs
      [] function = "nano"                -> {2}
      [] function = "set_reboot_required" -> {0}
      [] function = "backup"              -> {1}
      [] function = "system"              -> {1}
      [] function = "popen"               -> 1..3

\* SolutionAct.decorate's caller: function(*self.args, **self.kwargs).  The
\* result is the set of outcomes the user's answers allow.
callable_func(act, st) ==
    IF act.nargs # <<>> /\ act.nargs[1] \notin Arity(act.function)
    THEN {Raises(st, act, "TypeError")}
    ELSE
    CASE act.function = "execute"             -> execute(act, st)
      [] act.function = "confirm"             -> confirm(act, st)
      [] act.function = "choose"              -> choose(act, st)
      [] act.function = "note"                -> note(act, st)
      [] act.function = "set_reboot_required" -> set_reboot_required(act, st)
      [] act.function = "nano"                -> nano(act, st)
      [] act.function = "backup"              -> backup(act, st)
      [] act.function = "system"              -> system(act, st)
      [] act.function = "popen"               -> popen(act, st)

\* A plausible slip: the response tested for truth instead of compared.
response_matches_truthy(resp, value) == resp \in {"True", "1", "2", "'err'"}

\* The test of SolutionAct.apply: `if resp == response["value"]`.
response_matches(resp, value) == PyEq(resp, value)

RECURSIVE SolutionActs_apply(_, _, _)
RECURSIVE on_response_loop(_, _, _, _)

\* SolutionAct.apply: call the primitive, then run the acts of every
\* on_response entry the response matches, in order.
SolutionAct_apply(act, st) ==
    UNION { IF r.st.exc # "None" THEN {r.st}
            ELSE on_response_loop(act, 1, r.resp, r.st) : r \in callable_func(act, st) }

\* A plausible slip: the loop over on_response left after the first entry
\* that matches.
RECURSIVE on_response_first_match(_, _, _, _)
on_response_first_match(act, k, resp, st) ==
    IF k > Len(act.on_response) THEN {st}
    ELSE IF response_matches(resp, act.on_response[k].value)
    THEN SolutionActs_apply(act.on_response[k].acts, 1, st)
    ELSE on_response_first_match(act, k + 1, resp, st)

on_response_loop(act, k, resp, st) ==
    IF k > Len(act.on_response) THEN {st}
    ELSE IF response_matches(resp, act.on_response[k].value)
    THEN UNION { IF s.exc # "None" THEN {s}
                 ELSE on_response_loop(act, k + 1, resp, s) :
                    s \in SolutionActs_apply(act.on_response[k].acts, 1, st) }
    ELSE on_response_loop(act, k + 1, resp, st)

\* SolutionActs.apply: `for action in self.parsed_acts: action.apply()`, from
\* the i-th act on.
SolutionActs_apply(acts, i, st) ==
    IF i > Len(acts) THEN {st}
    ELSE UNION { IF s.exc # "None" THEN {s}
                 ELSE SolutionActs_apply(acts, i + 1, s) :
                    s \in SolutionAct_apply(acts[i], st) }

\* Solution.apply
Solution_apply(c, st) ==
    IF ~Solution_available(c) THEN {st}
    ELSE SolutionActs_apply(Check_solution(c).acts, 1, st)

(***************************************************************************)
(* __main__, Check.check_all and Check.apply_solution                      *)
(***************************************************************************)
\* range(self.solution.recheck and 5 or 1) and the `if retry == 4` of the loop.
RecheckRange == 5

MaxTries == 4

Answers == {"y", "n", "^C"}

NChecks == Len(Policy)

RunInitAt(p) ==
    /\ pc = p
    /\ status = [c \in CheckIds |-> "None"]
    /\ passed = <<>>
    /\ failed = <<>>
    /\ not_applicable = <<>>
    /\ idx = 1
    /\ available_solutions = <<>>
    /\ sidx = 1
    /\ retry = 0
    /\ reboot_required = FALSE
    /\ exception = "None"
    /\ notice = FALSE
    /\ evals = [c \in CheckIds |-> 0]
    /\ lastOut = [c \in CheckIds |-> "unset"]
    /\ execs = [c \in CheckIds |-> 0]
    /\ lastRun = <<>>
    /\ exit = [c \in CheckIds |-> "none"]
    /\ prompts = [c \in CheckIds |-> 0]
    /\ retryAnswer = [c \in CheckIds |-> "none"]
    /\ rechecked = [c \in CheckIds |-> FALSE]
    /\ fixed = [c \in CheckIds |-> FALSE]
    /\ hist = [first |-> [c \in CheckIds |-> "None"], solutions |-> "unasked",
               apply |-> [c \in CheckIds |-> "unasked"]]

\* The state after Check.load: every check unevaluated, the lists empty.
Init ==
    /\ RunInitAt("start")
    /\ host \in Hosts
    /\ condition \in PolicyConditions
    /\ arg = "none"
    /\ ret = [done |-> FALSE]

\* KeyboardInterrupt is no Exception: `except Exception` of __main__ does not
\* catch it and the process ends there.
Killed ==
    /\ pc' = "killed"
    /\ exception' = "KeyboardInterrupt"

\* An Exception leaves check_all and is caught by __main__.
Raised(e) ==
    /\ pc' = "finish"
    /\ exception' = e

\* check_all: confirm("Checking", "Start Checks?")
StartPrompt ==
    /\ pc = "start"
    /\ \E ans \in Answers :
         CASE ans = "y"  -> pc' = "checking" /\ exception' = exception
           [] ans = "n"  -> pc' = "finish" /\ exception' = exception
           [] ans = "^C" -> Killed
    /\ UNCHANGED <<host, condition, status, passed, failed, not_applicable, idx,
                   available_solutions, sidx, retry, reboot_required, notice,
                   evals, lastOut, execs, lastRun, exit, prompts, retryAnswer,
                   rechecked, fixed, arg, ret, hist>>

\* check_all: one iteration of `for check in cls.checks: check.check()`
CheckNext ==
    /\ pc = "checking"
    /\ idx <= NChecks
    /\ LET res == Check_rules_check(idx, condition[idx], host).res
       IN  IF res = "ValueError"
           THEN /\ Raised("ValueError")
                /\ UNCHANGED <<status, passed, failed, not_applicable, evals, lastOut,
                               rechecked, idx>>
           ELSE /\ Evaluated(idx, res)
                /\ idx' = idx + 1
                /\ pc' = IF idx = NChecks THEN "report" ELSE "checking"
                /\ exception' = exception
    /\ hist' = [hist EXCEPT !.first[idx] = status'[idx]]
    /\ UNCHANGED <<host, condition, available_solutions, sidx, retry,
                   reboot_required, notice, execs, lastRun, exit, prompts,
                   retryAnswer, fixed, arg, ret>>

\* A plausible slip: every check with an available solution offered, whatever
\* its status.
AvailableSolutions_all == SelectSeq([c \in 1..NChecks |-> c], Solution_available)

\* [ins for ins in cls.failed if ins.solution.available]
AvailableSolutions == SelectSeq(failed, Solution_available)

\* check_all: the report, then confirm("Solutions", "Apply Available Solutions?")
\* when there is a solution to apply.
Report ==
    /\ pc = "report"
    /\ available_solutions' = AvailableSolutions
    /\ sidx' = 1
    /\ IF AvailableSolutions = <<>>
       THEN pc' = "finish" /\ exception' = exception /\ hist' = hist
       ELSE \E ans \in Answers :
              /\ hist' = [hist EXCEPT !.solutions = ans]
              /\ CASE ans = "y"  -> pc' = "apply_prompt" /\ exception' = exception
                   [] ans = "n"  -> pc' = "finish" /\ exception' = exception
                   [] ans = "^C" -> Killed
    /\ UNCHANGED <<host, condition, status, passed, failed, not_applicable, idx,
                   retry, reboot_required, notice, evals, lastOut, execs, lastRun,
                   exit, prompts, retryAnswer, rechecked, fixed, arg, ret>>

\* The check whose apply_solution is running.
cur == available_solutions[sidx]

InApplySolution == pc \in {"apply_prompt", "apply", "max", "recheck", "retry_prompt"}

\* apply_solution returns: check_all goes on with the next solution.
Return(how) ==
    /\ exit' = [exit EXCEPT ![cur] = how]
    /\ sidx' = sidx + 1
    /\ pc' = IF sidx = Len(available_solutions) THEN "finish" ELSE "apply_prompt"
    /\ exception' = exception

\* apply_solution: confirm(self.title, "...Apply?"), then the first iteration
\* of the loop goes straight to self.solution.apply().
ApplyPrompt ==
    /\ pc = "apply_prompt"
    /\ \E ans \in Answers :
         /\ hist' = [hist EXCEPT !.apply[cur] = ans]
         /\ CASE ans = "y"  -> /\ pc' = "apply"
                               /\ retry' = 0
                               /\ UNCHANGED <<exit, sidx, exception>>
              [] ans = "n"  -> Return("declined") /\ retry' = retry
              [] ans = "^C" -> Killed /\ UNCHANGED <<exit, sidx, retry>>
    /\ UNCHANGED <<host, condition, status, passed, failed, not_applicable, idx,
                   available_solutions, reboot_required, notice, evals, lastOut,
                   execs, lastRun, prompts, retryAnswer, rechecked, fixed, arg, ret>>

\* The number of iterations of the loop: range(self.solution.recheck and 5 or 1)
\* A plausible slip: a range of 4, so that the loop ends before `retry == 4`.
LoopRange_short(c) == IF Check_solution(c).recheck = "True" THEN RecheckRange - 1 ELSE 1

\* A plausible slip: the recheck flag not looked at.
LoopRange_always(c) == RecheckRange

LoopRange(c) == IF Check_solution(c).recheck = "True" THEN RecheckRange ELSE 1

\* apply_solution: self.solution.apply(), then the head of the next iteration:
\* the loop ends, or reports the maximum of tries, or goes on to recheck.
ApplySolution ==
    /\ pc = "apply"
    /\ \E s \in Solution_apply(cur, [host |-> host, reboot |-> reboot_required,
                                     exc |-> "None", trace |-> <<>>, asked |-> <<>>]) :
         /\ host' = s.host
         /\ reboot_required' = s.reboot
         /\ lastRun' = s.trace
         /\ execs' = [execs EXCEPT ![cur] = @ + 1]
         /\ rechecked' = [rechecked EXCEPT ![cur] = FALSE]
         /\ fixed' = [fixed EXCEPT ![cur] =
                        Check_rules_check(cur, condition[cur], s.host).res = "True"]
         /\ IF s.exc = "KeyboardInterrupt"
            THEN Killed /\ UNCHANGED <<exit, sidx, retry>>
            ELSE IF s.exc # "None"
            THEN Raised(s.exc) /\ UNCHANGED <<exit, sidx, retry>>
            ELSE /\ retry' = retry + 1
                 /\ IF retry + 1 >= LoopRange(cur)
                    THEN Return("loop_end")
                    ELSE /\ pc' = IF retry + 1 = MaxTries THEN "max" ELSE "recheck"
                         /\ UNCHANGED <<exit, sidx, exception>>
    /\ UNCHANGED <<condition, status, passed, failed, not_applicable, idx,
                   available_solutions, notice, evals, lastOut, prompts, retryAnswer,
                   arg, ret, hist>>

\* apply_solution: `if retry == 4`: "Reached Maximum tries to apply the
\* solution. Moving on..." and return.
ReachedMaximum ==
    /\ pc = "max"
    /\ Return("max")
    /\ UNCHANGED <<host, condition, status, passed, failed, not_applicable, idx,
                   available_solutions, retry, reboot_required, notice, evals,
                   lastOut, execs, lastRun, prompts, retryAnswer, rechecked, fixed,
                   arg, ret, hist>>

\* A plausible slip: `if self.check() is not False`, which ends the loop on
\* None as on True.
recheck_passed_unless_false(res) == res # "False"

\* `if self.check():` the truth value of what Check.check returned: of True,
\* False and None only True is true.
recheck_passed(res) == res = "True"

\* apply_solution: "Rechecking ..." and `if self.check(): return`
Recheck ==
    /\ pc = "recheck"
    /\ LET res == Check_rules_check(cur, condition[cur], host).res
       IN  IF res = "ValueError"
           THEN /\ Raised("ValueError")
                /\ UNCHANGED <<status, passed, failed, not_applicable, evals, lastOut,
                               rechecked, exit, sidx>>
           ELSE /\ Evaluated(cur, res)
                /\ IF recheck_passed(res)
                   THEN Return("passed")
                   ELSE /\ pc' = "retry_prompt"
                        /\ UNCHANGED <<exit, sidx, exception>>
    /\ UNCHANGED <<host, condition, idx, available_solutions, retry,
                   reboot_required, notice, execs, lastRun, prompts, retryAnswer,
                   fixed, arg, ret, hist>>

\* A plausible slip: the answer to "Retry?" not looked at.
retry_confirmed_any(ans) == TRUE

\* `if not confirm(None, "Retry?"): return`: whether the loop goes on.
retry_confirmed(ans) == ans = "y"

\* apply_solution: "Recheck failed. Retrying n/3" and confirm(None, "Retry?")
RetryPrompt ==
    /\ pc = "retry_prompt"
    /\ prompts' = [prompts EXCEPT ![cur] = @ + 1]
    /\ \E ans \in Answers :
         /\ retryAnswer' = [retryAnswer EXCEPT ![cur] = ans]
         /\ IF ans = "^C"
            THEN Killed /\ UNCHANGED <<exit, sidx>>
            ELSE IF retry_confirmed(ans)
            THEN pc' = "apply" /\ UNCHANGED <<exit, sidx, exception>>
            ELSE Return("retry_declined")
    /\ UNCHANGED <<host, condition, status, passed, failed, not_applicable, idx,
                   available_solutions, retry, reboot_required, notice, evals,
                   lastOut, execs, lastRun, rechecked, fixed, arg, ret, hist>>

\* __main__ after check_all: the reboot notice, then the exception re-raised.
Finish ==
    /\ pc = "finish"
    /\ notice' = reboot_required
    /\ pc' = "exit"
    /\ UNCHANGED <<host, condition, status, passed, failed, not_applicable, idx,
                   available_solutions, sidx, retry, reboot_required, exception,
                   evals, lastOut, execs, lastRun, exit, prompts, retryAnswer,
                   rechecked, fixed, arg, ret, hist>>

Next ==
    \/ StartPrompt
    \/ CheckNext
    \/ Report
    \/ ApplyPrompt
    \/ ApplySolution
    \/ ReachedMaximum
    \/ Recheck
    \/ RetryPrompt
    \/ Finish

Spec == Init /\ [][Next]_vars

(***************************************************************************)
(* Harnesses of the pure functions: the run itself stays where it is       *)
(***************************************************************************)
HarnessRun ==
    /\ RunInitAt("off")
    /\ host = [fs |-> [p \in Paths |-> "absent"], good |-> {}, procs |-> {},
               holds |-> {}, holdsgood |-> {}, shell |-> "ok", cmd |-> "nomatch"]
    /\ condition = [c \in CheckIds |-> "all"]

(***************************************************************************)
(* Harness for Rules.check on lists of rule outcomes                       *)
(***************************************************************************)
AggInit ==
    /\ arg \in {[condition |-> c, outs |-> o] :
                    c \in Conditions \cup {"sometimes"},
                    o \in SeqsUpTo(Outcomes, MaxRules)}
    /\ ret = [done |-> FALSE]
    /\ HarnessRun

AggCall ==
    /\ ~ret.done
    /\ ret' = [done |-> TRUE, val |-> Rules_check(arg.condition, arg.outs).res]
    /\ arg' = arg
    /\ UNCHANGED runvars

AggNext == AggCall

SpecAgg == AggInit /\ [][AggNext]_vars

(***************************************************************************)
(* Harness for Rules.__init__ on rule lists                                *)
(***************************************************************************)
\* One rule string per parsed kind, and two that do not parse.
OrderShapes ==
    {<<"f", 0>>, <<"f", 1>>, <<"d", 0>>, <<"d", 1>>, <<"d", 2>>,
     <<"c", 1>>, <<"p", 0>>, <<"r", 1>>, <<"c", 0>>}

OrderRules == {[sel |-> s[1], npat |-> s[2], neg |-> n] : s \in OrderShapes, n \in BOOLEAN}

OrderInit ==
    /\ arg \in SeqsUpTo(OrderRules, MaxRules)
    /\ ret = [done |-> FALSE]
    /\ HarnessRun

OrderCall ==
    /\ ~ret.done
    /\ ret' = [done |-> TRUE, val |-> Rules_init(arg)]
    /\ arg' = arg
    /\ UNCHANGED runvars

OrderNext == OrderCall

SpecOrder == OrderInit /\ [][OrderNext]_vars

(***************************************************************************)
(* Harness for Rules(...).check() on rule lists and hosts                  *)
(***************************************************************************)
\* Rules of the parsed kinds that probe the file system or the process
\* table, and two that do not parse, one of them with a leading "not ".
EvalRules ==
    {RuleDoc("f", 0, FALSE, "conf"), RuleDoc("f", 1, FALSE, "conf"),
     RuleDoc("f", 0, TRUE, "conf"), RuleDoc("d", 1, FALSE, "conf"),
     RuleDoc("p", 0, FALSE, "daemon"),
     RuleDoc("r", 1, FALSE, "conf"), RuleDoc("x", 0, TRUE, "conf")}

EvalHosts == {h \in ProbeHosts : h.shell = "ok" /\ h.cmd = "nomatch"}

EvalInit ==
    /\ arg \in [condition : Conditions \cup {"sometimes"},
                rules : SeqsUpTo(EvalRules, MaxRules),
                host : EvalHosts]
    /\ ret = [done |-> FALSE]
    /\ HarnessRun

\* Rules(check_id, condition, rules).check(): the rules in evaluation order,
\* rule.check() called on one after the other until the loop returns.  probes
\* lists the input positions of the rules whose check() was called.
EvalCall ==
    /\ ~ret.done
    /\ LET order == Rules_init(arg.rules)
           outs  == [i \in 1..Len(order) |-> Rule_check(order[i], arg.host)]
           r     == Rules_check(arg.condition, outs)
       IN  ret' = [done |-> TRUE, val |-> r.res,
                   probes |-> [i \in 1..r.probed |-> order[i].pos]]
    /\ arg' = arg
    /\ UNCHANGED runvars

EvalNext == EvalCall

SpecEval == EvalInit /\ [][EvalNext]_vars

(***************************************************************************)
(* Harness for Rule(...).check() on one rule and a host                    *)
(***************************************************************************)
\* One rule string per parsed kind (the command rule with a simple command
\* and with a pipeline), and four that do not parse, each with and without a
\* leading "not ".
RuleTargets ==
    {<<"f", 0, "conf">>, <<"f", 1, "conf">>, <<"d", 0, "conf">>, <<"d", 1, "conf">>,
     <<"d", 2, "conf">>, <<"c", 1, "probe">>, <<"c", 1, "probe | filter">>,
     <<"p", 0, "daemon">>,
     <<"r", 1, "conf">>, <<"c", 0, "probe">>, <<"x", 0, "conf">>, <<"f", 2, "conf">>}

RuleDocs == {RuleDoc(t[1], t[2], n, t[3]) : t \in RuleTargets, n \in BOOLEAN}

RuleInit ==
    /\ arg \in [rule : RuleDocs, host : ProbeHosts]
    /\ ret = [done |-> FALSE]
    /\ HarnessRun

\* Rule(check_id, rule).check() on the host: val is what check() returns,
\* pred what the predicate returned or "raise" ("unparsed" without a predicate).
RuleCall ==
    /\ ~ret.done
    /\ LET r == Rule_init(arg.rule, 1)
       IN  ret' = [done |-> TRUE, val |-> Rule_check(r, arg.host),
                   pred |-> IF r.parsed = "None" THEN "unparsed"
                            ELSE ParsedRule_function(r, arg.host)]
    /\ arg' = arg
    /\ UNCHANGED runvars

RuleNext == RuleCall

SpecRule == RuleInit /\ [][RuleNext]_vars

(***************************************************************************)
(* Harness for Rule.parse on rule strings                                  *)
(***************************************************************************)
MaxTokens == 4

ParseInit ==
    /\ arg \in SeqsUpTo(RuleTokens, MaxTokens)
    /\ ret = [done |-> FALSE]
    /\ HarnessRun

\* Rule(check_id, rule): parsed is the tag of the ParsedRule or "None".
ParseCall ==
    /\ ~ret.done
    /\ ret' = [done |-> TRUE, val |-> Rule_init(Rule_split(arg), 1)]
    /\ arg' = arg
    /\ UNCHANGED runvars

ParseNext == ParseCall

SpecParse == ParseInit /\ [][ParseNext]_vars

(***************************************************************************)
(* Harness for Regex(pattern).check(text)                                  *)
(***************************************************************************)
MaxChains == 2

MaxLines == 2

Chain(kind, body, op, std) == [kind |-> kind, body |-> body, op |-> op, std |-> std]

RegexChains ==
    {Chain("r:", <<"x">>, "", 0), Chain("!r:", <<"x">>, "", 0),
     Chain("r:", <<"\\", ".">>, "", 0), Chain("", <<"x">>, "", 0),
     Chain("n:", <<"(\\d+)">>, ">", 5), Chain("n:", <<"x">>, ">", 5)}

RegexLines == {<<>>, <<"x">>, <<"7">>, <<"x", "7">>, <<"x", "3">>, <<".">>}

RegexInit ==
    /\ arg \in [pattern : SeqsUpTo(RegexChains, MaxChains) \ {<<>>},
                text : SeqsUpTo(RegexLines, MaxLines) \ {<<>>}]
    /\ ret = [done |-> FALSE]
    /\ HarnessRun

RegexCall ==
    /\ ~ret.done
    /\ ret' = [done |-> TRUE, val |-> Regex_check(Regex_init(arg.pattern), arg.text, 1)]
    /\ arg' = arg
    /\ UNCHANGED runvars

RegexNext == RegexCall

SpecRegex == RegexInit /\ [][RegexNext]_vars

(***************************************************************************)
(* Harness for one chain of a pattern on one line                          *)
(***************************************************************************)
MaxBodyLen == 2

MaxLineLen == 2

\* The expressions of the "n:" chains: with one group, without a group, and
\* with two.
NumBodies ==
    {<<"(\\d+)">>, <<"x", "(\\d+)">>, <<".", "(\\d+)">>, <<"\\", ".", "(\\d+)">>,
     <<"(\\d+)", ".">>, <<"(\\d+)", "\\", ".">>, <<"x">>, <<"\\", ".">>,
     <<"(\\d+)", "(\\d+)">>}

ChainInit ==
    /\ arg \in [chain : {Chain(k, b, "", 0) :
                            k \in {"r:", "!r:", ""}, b \in SeqsUpTo(PatChars, MaxBodyLen)}
                        \cup {Chain("n:", b, o, 5) : b \in NumBodies, o \in CompareOps},
                line : SeqsUpTo(LineChars, MaxLineLen)]
    /\ ret = [done |-> FALSE]
    /\ HarnessRun

\* Regex(chain).check(line) for a pattern of one chain and a text of one line.
ChainCall ==
    /\ ~ret.done
    /\ ret' = [done |-> TRUE, val |-> Regex_check(Regex_init(<<arg.chain>>), <<arg.line>>, 1)]
    /\ arg' = arg
    /\ UNCHANGED runvars

ChainNext == ChainCall

SpecChain == ChainInit /\ [][ChainNext]_vars

(***************************************************************************)
(* Harness for Solution(check_id, solution) and Solution.apply             *)
(***************************************************************************)
Plan(acts) == [given |-> TRUE, recheck |-> "absent", acts |-> acts]

\* Action documents: the seven listed functions; os.system and os.popen
\* named at the top level and under an on_response entry; a name that is no
\* global and one that is not callable, at the top level and nested; a tree
\* of three levels in which a confirm has the entries True and 1, both equal
\* to the answer True, and execute acts that ask (no `ask` in the document).
PlanDocs ==
    {Plan(<< Act(20, "note", "", "absent", NoOnResponse),
             Act(21, "backup", "conf", "absent", NoOnResponse),
             Act(22, "nano", "conf", "absent", NoOnResponse),
             Act(23, "choose", "", "absent", <<
                 [value |-> "1", acts |-> <<
                     Act(24, "set_reboot_required", "", "absent", NoOnResponse) >>] >>),
             Act(25, "execute", "touch conf", "absent", NoOnResponse) >>),
     Plan(<< Act(30, "system", "pkill daemon", "absent", NoOnResponse) >>),
     Plan(<< Act(31, "confirm", "", "absent", <<
                 [value |-> "False", acts |-> <<
                     Act(32, "popen", "touch conf", "absent", NoOnResponse) >>] >>) >>),
     Plan(<< Act(33, "note", "", "absent", NoOnResponse),
             Act(34, "reboot", "", "absent", NoOnResponse) >>),
     Plan(<< Act(35, "confirm", "", "absent", <<
                 [value |-> "True", acts |-> <<
                     Act(36, "reboot_required", "", "absent", NoOnResponse) >>] >>) >>),
     Plan(<< Act(50, "confirm", "", "absent", <<
                 [value |-> "True", acts |-> <<
                     Act(51, "note", "", "absent", NoOnResponse),
                     Act(52, "confirm", "", "absent", <<
                         [value |-> "False", acts |-> <<
                             Act(53, "note", "", "absent", NoOnResponse) >>] >>),
                     Act(54, "execute", "touch conf", "absent", NoOnResponse) >>],
                 [value |-> "1", acts |-> <<
                     Act(55, "note", "", "absent", NoOnResponse) >>] >>),
             Act(56, "execute", "touch conf", "absent", NoOnResponse),
             Act(57, "note", "", "absent", NoOnResponse) >>)}

PlanInit ==
    /\ arg \in [solution : PlanDocs, host : Hosts]
    /\ ret = [done |-> FALSE]
    /\ HarnessRun

\* Solution(check_id, solution), then apply() when the solution is available,
\* as Check.apply_solution calls it.
PlanCall ==
    /\ ~ret.done
    /\ LET sol == Solution_init(arg.solution)
           st0 == [host |-> arg.host, reboot |-> FALSE, exc |-> "None", trace |-> <<>>, asked |-> <<>>]
       IN  IF sol.acts_is_none
           THEN ret' = [done |-> TRUE, available |-> FALSE, st |-> st0]
           ELSE \E s \in SolutionActs_apply(sol.acts, 1, st0) :
                    ret' = [done |-> TRUE, available |-> TRUE, st |-> s]
    /\ arg' = arg
    /\ UNCHANGED runvars

PlanNext == PlanCall

SpecPlan == PlanInit /\ [][PlanNext]_vars

\* Check.load on a policy of two checks (the rules of checks 1 and 2 of
\* Policy), then the first pass of check_all.  The action documents: a sound
\* one, none, a mapping without "acts", an act without "function", a name
\* that is no global under an on_response entry, on_response entries without
\* "value" and without "acts", and the acts written as a list directly under
\* `solution:` (no "acts" key, no mapping).
LoadDocs ==
    {Solution2,
     NoSolution,
     [given |-> TRUE, recheck |-> "False"],
     [given |-> TRUE, recheck |-> "absent", acts |-> <<
        [id |-> 40, cmd |-> "touch conf", ask |-> "absent", on_response |-> NoOnResponse] >>],
     Plan(<< Act(41, "confirm", "", "absent", <<
                 [value |-> "True", acts |-> <<
                     Act(42, "reboot", "", "absent", NoOnResponse) >>] >>) >>),
     Plan(<< Act(43, "confirm", "", "absent", <<
                 [acts |-> << Act(44, "note", "", "absent", NoOnResponse) >>] >>) >>),
     Plan(<< Act(45, "confirm", "", "absent", << [value |-> "True"] >>) >>),
     [given |-> TRUE, list |-> << Act(46, "note", "", "absent", NoOnResponse) >>]}

LoadChecks == 1..2

LoadConditions == <<"all", "none">>

\* Check.load: `for check in content["checks"]: cls.checks.append(cls(check))`,
\* where Check.__init__ ends with Solution(self.id, check["solution"]).  An
\* exception of the constructor leaves the loop and Check.load: the checks
\* loaded so far are in cls.checks, and __main__ calls Check.load outside its
\* try.
RECURSIVE Check_load(_, _, _)
Check_load(docs, c, checks) ==
    IF c > Len(docs) THEN [exc |-> "None", checks |-> checks]
    ELSE LET sol == Solution_init(docs[c])
         IN  IF sol.exc # "None"
             THEN [exc |-> sol.exc, checks |-> checks]
             ELSE Check_load(docs, c + 1, Append(checks, [id |-> c, solution |-> sol]))

\* check_all's first pass over the loaded checks, from the i-th on.
RECURSIVE check_all_pass(_, _, _, _)
check_all_pass(checks, i, h, s) ==
    IF i > Len(checks) THEN s
    ELSE LET c == checks[i].id
             res == Check_rules_check(c, LoadConditions[c], h).res
         IN  check_all_pass(checks, i + 1, h, Check_check(c, res, s))

LoadInit ==
    /\ arg \in [solutions : [LoadChecks -> LoadDocs], host : Hosts]
    /\ ret = [stage |-> "start"]
    /\ HarnessRun

\* __main__: Check.load(cis_path, solutions_path, whitelisted_checks)
LoadCall ==
    /\ ret.stage = "start"
    /\ LET l == Check_load(arg.solutions, 1, <<>>)
       IN  ret' = [stage |-> IF l.exc = "None" THEN "loaded" ELSE "aborted",
                   exc |-> l.exc, checks |-> l.checks,
                   s |-> [status |-> [c \in LoadChecks |-> "None"], passed |-> <<>>,
                          failed |-> <<>>, not_applicable |-> <<>>]]
    /\ arg' = arg
    /\ UNCHANGED runvars

\* __main__: Check.check_all(), the user accepting "Start Checks?".
LoadCheckAll ==
    /\ ret.stage = "loaded"
    /\ ret' = [ret EXCEPT !.stage = "evaluated",
                          !.s = check_all_pass(ret.checks, 1, arg.host, ret.s)]
    /\ arg' = arg
    /\ UNCHANGED runvars

LoadNext == LoadCall \/ LoadCheckAll

SpecLoad == LoadInit /\ [][LoadNext]_vars

\* __main__ on a policy of one check without solution: check_all's first
\* pass, then the end of __main__.
MaxConfRules == 2

ConfInit ==
    /\ arg \in [condition : Conditions \cup {"sometimes"},
                rules : SeqsUpTo(EvalRules, MaxConfRules),
                host : EvalHosts]
    /\ ret = [stage |-> "start", exc |-> "None", probes |-> <<>>,
              s |-> [status |-> <<"None">>, passed |-> <<>>, failed |-> <<>>,
                     not_applicable |-> <<>>],
              reraised |-> FALSE]
    /\ HarnessRun

\* check_all: check.check() for the one check: self.rules.check(), whose
\* exception leaves Check.check before the status is set, and check_all.
ConfCheckAll ==
    /\ ret.stage = "start"
    /\ LET order == Rules_init(arg.rules)
           outs  == [i \in 1..Len(order) |-> Rule_check(order[i], arg.host)]
           r     == Rules_check(arg.condition, outs)
           probes == [i \in 1..r.probed |-> order[i].pos]
       IN  IF r.res = "ValueError"
           THEN ret' = [ret EXCEPT !.stage = "raised", !.exc = r.res, !.probes = probes]
           ELSE ret' = [ret EXCEPT !.stage = "checked", !.probes = probes,
                                   !.s = Check_check(1, r.res, ret.s)]
    /\ arg' = arg
    /\ UNCHANGED runvars

\* __main__: `except Exception as exc`, the reboot notice, then
\* `if exception is not None: raise exception`.
ConfMainEnd ==
    /\ ret.stage \in {"raised", "checked"}
    /\ ret' = [ret EXCEPT !.stage = "exit", !.reraised = (ret.exc # "None")]
    /\ arg' = arg
    /\ UNCHANGED runvars

ConfNext == ConfCheckAll \/ ConfMainEnd

SpecConf == ConfInit /\ [][ConfNext]_vars

(***************************************************************************)
(* Properties of the aggregator and of the evaluation order                *)
(***************************************************************************)
Has(outs, v) == \E i \in 1..Len(outs) : outs[i] = v

\* The aggregate the three-valued tables prescribe, stated without an order.
TableOutcome(cond, outs) ==
    CASE cond = "all"  -> IF Has(outs, "False") THEN "False"
                               ELSE IF Has(outs, "None") THEN "None" ELSE "True"
      [] cond = "any"  -> IF Has(outs, "True") THEN "True"
                               ELSE IF Has(outs, "None") THEN "None" ELSE "False"
      [] cond = "none" -> IF Has(outs, "True") THEN "False"
                               ELSE IF Has(outs, "None") THEN "None" ELSE "True"

\* C1: for every list of rule outcomes and each of all/any/none, Rules.check
\* returns the outcome of the three-valued table (all: False if any False, else
\* NotApplicable if any NotApplicable, else True; any: True if any True, else
\* NotApplicable if any, else False; none: False if any True, else NotApplicable
\* if any, else True).
C1_ThreeValuedTables ==
    (ret.done /\ arg.condition \in Conditions)
        => ret.val = TableOutcome(arg.condition, arg.outs)

C1_Witness ==
    /\ ret.done
    /\ ret.val = "None"
    /\ arg.condition = "all"
    /\ arg.outs = <<"True", "None">>

\* C10: the evaluation order is a stable partition of the input rule list:
\* the same rules, none lost or duplicated; every FileExistence, DirExistence
\* or DirContains rule before every other rule; input order kept in each group.
KindOf(rule) == Rule_parse(rule)

ExistenceKinds == {"FileExistence", "DirExistence", "DirContains"}

C10_StablePartition ==
    ret.done =>
        LET order == ret.val
        IN  /\ Len(order) = Len(arg)
            /\ {order[i].pos : i \in 1..Len(order)} = 1..Len(arg)
            /\ \A i \in 1..Len(order) : order[i].rule = arg[order[i].pos]
            /\ \A i, j \in 1..Len(order) :
                  i < j =>
                    /\ ~(KindOf(order[i].rule) \notin ExistenceKinds
                            /\ KindOf(order[j].rule) \in ExistenceKinds)
                    /\ ((KindOf(order[i].rule) \in ExistenceKinds)
                            = (KindOf(order[j].rule) \in ExistenceKinds))
                         => order[i].pos < order[j].pos

C10_Witness ==
    /\ ret.done
    /\ Len(arg) = 3
    /\ KindOf(arg[1]) = "RegexAgainstFile"
    /\ KindOf(arg[2]) = "ValueError"
    /\ KindOf(arg[3]) = "DirContains" /\ arg[3].neg
    /\ ret.val[1].pos = 3 /\ ret.val[2].pos = 1 /\ ret.val[3].pos = 2

\* C11: in one aggregator evaluation, once a rule of the existence-first order
\* yields the decisive outcome (False under all, True under any or none), no
\* later rule of that order is probed; for the input [RegexAgainstFile,
\* FileExistence] under all with FileExistence False, the RegexAgainstFile
\* rule is not probed.
Decisive(cond, out) ==
    \/ cond = "all" /\ out = "False"
    \/ cond \in {"any", "none"} /\ out = "True"

Probed(pos) == \E k \in 1..Len(ret.probes) : ret.probes[k] = pos

C11_ShortCircuit ==
    (ret.done /\ arg.condition \in Conditions) =>
        LET order == Rules_init(arg.rules)
        IN  /\ \A i, j \in 1..Len(order) :
                 (i < j /\ Decisive(arg.condition, Rule_check(order[i], arg.host)))
                    => ~Probed(order[j].pos)
            /\ (/\ arg.condition = "all"
                /\ Len(arg.rules) = 2
                /\ KindOf(arg.rules[1]) = "RegexAgainstFile"
                /\ KindOf(arg.rules[2]) = "FileExistence" /\ ~arg.rules[2].neg
                /\ arg.host.fs[arg.rules[2].target] = "absent")
               => ~Probed(1)

C11_Witness ==
    /\ ret.done
    /\ arg.condition = "all"
    /\ arg.rules = << RuleDoc("f", 1, FALSE, "conf"), RuleDoc("f", 0, FALSE, "conf") >>
    /\ arg.host.fs["conf"] = "absent"
    /\ ret.probes = <<2>>
    /\ ret.val = "False"

\* C12: a rule that fails to parse stays in the list, evaluates to True with
\* or without "not ", and never blocks aggregation: when the parsed rules alone
\* aggregate to True or NotApplicable, the list with the unparsed rules in it
\* does not aggregate to False.
IsParsed(rule) == Rule_parse(rule) # "ValueError"

AggregateOf(cond, rules, h) ==
    LET order == Rules_init(rules)
    IN  Rules_check(cond, [i \in 1..Len(order) |-> Rule_check(order[i], h)]).res

C12_UnparsedNeverBlocks ==
    (ret.done /\ arg.condition \in Conditions) =>
        /\ Len(Rules_init(arg.rules)) = Len(arg.rules)
        /\ \A i \in 1..Len(arg.rules) :
              ~IsParsed(arg.rules[i])
                 => Rule_check(Rule_init(arg.rules[i], i), arg.host) = "True"
        /\ ((\E i \in 1..Len(arg.rules) : ~IsParsed(arg.rules[i]))
              /\ AggregateOf(arg.condition, SelectSeq(arg.rules, IsParsed), arg.host)
                    \in {"True", "None"})
            => ret.val # "False"

(***************************************************************************)
(* Properties of the evaluation of one rule                                *)
(***************************************************************************)
\* The outcome the predicate of a parsed rule has on the host, stated from
\* what is on the host: NotApplicable where the target is missing for a
\* content check or of the wrong type, where the shell cannot be started and
\* where the command runs past its timeout.
TargetFails(rule, h) ==
    LET kind == KindOf(rule)
    IN  \/ kind = "FileExistence" /\ h.fs[rule.target] = "dir"
        \/ kind = "DirExistence" /\ h.fs[rule.target] = "file"
        \/ kind = "RegexAgainstFile" /\ h.fs[rule.target] # "file"
        \/ kind \in {"DirContains", "RegexAgainstDir"} /\ h.fs[rule.target] # "dir"
        \/ kind = "CheckProcessExists" /\ h.shell = "fail"
        \/ kind = "RegexAgainstCommand" /\ (h.shell = "fail" \/ h.cmd = "slow")

\* C13: for a parsed rule the outcome is the predicate's outcome without
\* "not"; with "not" True becomes False and False True; a NotApplicable
\* predicate outcome stays NotApplicable with and without "not".
C13_Negation ==
    (ret.done /\ IsParsed(arg.rule)) =>
        /\ (~arg.rule.neg /\ ret.pred \in {"True", "False"}) => ret.val = ret.pred
        /\ (arg.rule.neg /\ ret.pred = "True") => ret.val = "False"
        /\ (arg.rule.neg /\ ret.pred = "False") => ret.val = "True"
        /\ ret.pred = "raise" => ret.val = "None"
        /\ ret.pred \in {"True", "False", "raise"}

C13_Witness ==
    /\ ret.done
    /\ arg.rule = RuleDoc("f", 1, TRUE, "conf")
    /\ arg.host.fs["conf"] = "absent"
    /\ ret.pred = "raise"
    /\ ret.val = "None"

\* C14: a predicate execution failure (target of the wrong type, target
\* missing for a content check, process probe failure, command past its
\* timeout) is caught inside the rule evaluation: the rule's outcome is
\* NotApplicable and nothing is raised to the aggregator.
C14_FailureIsNotApplicable ==
    ret.done =>
        /\ ret.val \in Outcomes
        /\ (IsParsed(arg.rule) /\ TargetFails(arg.rule, arg.host)) => ret.val = "None"

\* C16: the rule "not f:<path>" is False whenever the path exists and True
\* whenever it is absent, whatever is on the host.
IsNotFile(rule) == KindOf(rule) = "FileExistence" /\ rule.neg

C16_NotFileExists ==
    (ret.done /\ IsNotFile(arg.rule)) =>
        ret.val = (IF arg.host.fs[arg.rule.target] # "absent" THEN "False" ELSE "True")

\* C16 as amended: the rule "not f:<path>" is False whenever something that
\* is no directory is at the path, True whenever nothing is there, and
\* NotApplicable whenever a directory is there.
C16_NotFileExistsUnlessDir ==
    (ret.done /\ IsNotFile(arg.rule)) =>
        ret.val = (CASE arg.host.fs[arg.rule.target] = "file"   -> "False"
                     [] arg.host.fs[arg.rule.target] = "absent" -> "True"
                     [] arg.host.fs[arg.rule.target] = "dir"    -> "None")

C16_Witness ==
    /\ ret.done
    /\ IsNotFile(arg.rule)
    /\ arg.host.fs[arg.rule.target] = "file"
    /\ ret.val = "False"

(***************************************************************************)
(* Properties of Rule.parse                                                *)
(***************************************************************************)
\* The rule string read as the grammar reads it: the pattern count is the
\* number of "->"; the first part, without the blanks around it, starts with
\* an optional "not " and then the selector.
PatternCount == Cardinality({i \in 1..Len(arg) : arg[i] = "->"})

FirstPart ==
    {i \in 1..Len(arg) : arg[i] # " " /\ \A k \in 1..i : arg[k] # "->"}

Lo == CHOOSE i \in FirstPart : \A k \in FirstPart : i <= k

HasNot == FirstPart # {} /\ arg[Lo] = "not " /\ \E k \in FirstPart : k > Lo

SelectorToken ==
    IF FirstPart = {} THEN "none"
    ELSE IF HasNot THEN arg[Lo + 1]
    ELSE arg[Lo]

GrammarKind(seltok, n) ==
    CASE seltok = "f:" /\ n = 0 -> "FileExistence"
      [] seltok = "f:" /\ n = 1 -> "RegexAgainstFile"
      [] seltok = "d:" /\ n = 0 -> "DirExistence"
      [] seltok = "d:" /\ n = 1 -> "DirContains"
      [] seltok = "d:" /\ n = 2 -> "RegexAgainstDir"
      [] seltok = "c:" /\ n = 1 -> "RegexAgainstCommand"
      [] seltok = "p:" /\ n = 0 -> "CheckProcessExists"
      [] OTHER -> "None"

\* C15: rule parsing is a total function of selector and pattern count, after
\* an optional leading "not " that only sets the negate flag: f: 0 ->
\* FileExistence, 1 -> RegexAgainstFile; d: 0 -> DirExistence, 1 ->
\* DirContains, 2 -> RegexAgainstDir; c: 1 -> RegexAgainstCommand; p: 0 ->
\* CheckProcessExists; r:, any other selector and any other count -> Unparsed.
C15_ParseTable ==
    ret.done =>
        /\ ret.val.parsed = GrammarKind(SelectorToken, PatternCount)
        /\ ret.val.parsed # "None" => ret.val.revert = HasNot

C15_Witness ==
    /\ ret.done
    /\ arg = <<"not ", "d:", "->", "->">>
    /\ ret.val.parsed = "RegexAgainstDir"
    /\ ret.val.revert

(***************************************************************************)
(* Properties of the pattern dialect                                       *)
(***************************************************************************)
\* C17: Regex.check(text) is True exactly when some line of the text makes
\* every chain of the pattern true, all on that one line; chains met by
\* different lines do not add up to a match.
LineHolds(l) ==
    \A k \in 1..Len(arg.pattern) :
        chain_check(Regex_init(arg.pattern)[k], arg.text[l]) = "True"

C17_OneLineAllChains ==
    (ret.done /\ ret.val \in {"True", "False"}) =>
        ((ret.val = "True") <=> (\E l \in 1..Len(arg.text) : LineHolds(l)))

C17_Witness ==
    /\ ret.done
    /\ arg.pattern = << Chain("r:", <<"x">>, "", 0), Chain("n:", <<"(\\d+)">>, ">", 5) >>
    /\ arg.text = << <<"x">>, <<"7">> >>
    /\ ret.val = "False"

\* The dialect read off the pattern as written.  A body is plain when each of
\* its backslashes escapes a dot and is not itself escaped.  Its elements are
\* "x", the group, and the dots: an unescaped dot stands for a dot, an escaped
\* one for esc.
Plain(body) ==
    \A p \in 1..Len(body) :
        body[p] = "\\" => /\ p < Len(body) /\ body[p + 1] = "."
                          /\ (p = 1 \/ body[p - 1] # "\\")

HasDot(body) == \E p \in 1..Len(body) : body[p] = "."

ElemPositions(body) == {p \in 1..Len(body) : body[p] # "\\"}

Elems(body, esc) ==
    [k \in 1..Cardinality(ElemPositions(body)) |->
        LET p == CHOOSE q \in ElemPositions(body) :
                    Cardinality({r \in ElemPositions(body) : r < q}) = k - 1
        IN  IF body[p] = "."
            THEN IF p > 1 /\ body[p - 1] = "\\" THEN esc ELSE "dot"
            ELSE IF body[p] = "(\\d+)" THEN "group" ELSE body[p]]

Groups(e) == {k \in 1..Len(e) : e[k] = "group"}

ElemAccepts(el, c) ==
    CASE el = "any" -> TRUE
      [] el = "dot" -> c = "."
      [] OTHER      -> c = el

\* The elements e, with at most one group, lie in the line from position i
\* on, the group taking n digits.
MatchAt(e, line, i, n) ==
    LET c     == IF Groups(e) = {} THEN 0 ELSE CHOOSE k \in Groups(e) : TRUE
        at(k) == IF c = 0 \/ k < c THEN i + k - 1 ELSE i + k - 2 + n
    IN  /\ (c = 0) = (n = 0)
        /\ \A k \in 1..Len(e) :
              k # c => (at(k) <= Len(line) /\ ElemAccepts(e[k], line[at(k)]))
        /\ \A d \in 0..(n - 1) :
              i + c - 1 + d <= Len(line) /\ line[i + c - 1 + d] \in Digits

Matches(e, line) ==
    {m \in (1..(Len(line) + 1)) \X (0..Len(line)) : MatchAt(e, line, m[1], m[2])}

\* The first capture: the leftmost match, its group as long as can be.
FirstCapture(e, line) ==
    LET m == CHOOSE a \in Matches(e, line) :
                \A b \in Matches(e, line) :
                    a[1] < b[1] \/ (a[1] = b[1] /\ a[2] >= b[2])
        c == CHOOSE k \in Groups(e) : TRUE
    IN  SubSeq(line, m[1] + c - 1, m[1] + c - 2 + m[2])

ClaimOps == {"<", "<=", "==", "!=", ">=", ">"}

Compare(op, v, w) ==
    CASE op = "<"  -> v < w
      [] op = "<=" -> v <= w
      [] op = "==" -> v = w
      [] op = "!=" -> v # w
      [] op = ">=" -> v >= w
      [] op = ">"  -> v > w

\* What a chain is on a line when its escaped dots stand for esc.
DialectValue(chain, line, esc) ==
    LET e == Elems(chain.body, esc)
    IN  CASE chain.kind = "r:"  -> Bool(Matches(e, line) # {})
          [] chain.kind = "!r:" -> Bool(Matches(e, line) = {})
          [] chain.kind = "n:"  ->
                Bool(/\ Matches(e, line) # {}
                     /\ Compare(chain.op, to_int(FirstCapture(e, line)), chain.std))

\* The chains the dialect's reading covers: r: and !r: chains without a
\* group, n: chains with one group and an operator of the claim.
Covered(chain) ==
    /\ Plain(chain.body)
    /\ \/ chain.kind \in {"r:", "!r:"} /\ Groups(Elems(chain.body, "any")) = {}
       \/ /\ chain.kind = "n:" /\ chain.op \in ClaimOps
          /\ Cardinality(Groups(Elems(chain.body, "any"))) = 1

\* C18: a dot written in a pattern never acts as "any character": in r:, !r:
\* and n: chains an unescaped "." and an escaped "\." both match a dot only.
C18_DotAlwaysLiteral ==
    (ret.done /\ Covered(arg.chain) /\ HasDot(arg.chain.body))
        => ret.val = DialectValue(arg.chain, arg.line, "dot")

\* C18 as amended: an unescaped "." matches a dot only; an escaped "\."
\* matches any one character.
C18_EscapedDotIsAny ==
    (ret.done /\ Covered(arg.chain) /\ HasDot(arg.chain.body))
        => ret.val = DialectValue(arg.chain, arg.line, "any")

C18_Witness ==
    /\ ret.done
    /\ arg.chain = Chain("r:", <<"\\", ".">>, "", 0)
    /\ arg.line = <<"x">>
    /\ ret.val = "True"

\* C19: a chain "n:<expr> compare <op> <int>" with <op> one of < <= == != >=
\* > is true on a line exactly when <expr> captures a number on the line and
\* the first captured number v satisfies v <op> <int>; it is false when
\* nothing is captured.
C19_NumericCompare ==
    (ret.done /\ Covered(arg.chain) /\ arg.chain.kind = "n:") =>
        LET e == Elems(arg.chain.body, "any")
        IN  /\ ret.val \in {"True", "False"}
            /\ (ret.val = "True") <=>
                  (/\ Matches(e, arg.line) # {}
                   /\ Compare(arg.chain.op, to_int(FirstCapture(e, arg.line)),
                              arg.chain.std))
            /\ Matches(e, arg.line) = {} => ret.val = "False"

C19_Witness ==
    /\ ret.done
    /\ arg.chain = Chain("n:", <<"x", "(\\d+)">>, ">", 5)
    /\ arg.line = <<"x", "7">>
    /\ ret.val = "True"

(***************************************************************************)
(* Properties of the check record life cycle                               *)
(***************************************************************************)
StatusOf(out) ==
    CASE out = "True"  -> "PASSED"
      [] out = "False" -> "FAILED"
      [] out = "None"  -> "NOT_APPLICABLE"

\* C2: every completed call of Check.check sets the status the aggregator
\* outcome of that call prescribes (True: PASSED, False: FAILED, NotApplicable:
\* NOT_APPLICABLE) and nothing else changes a status; a record is unevaluated
\* exactly until its first evaluation and never again afterwards.
C2_StatusFollowsOutcome ==
    /\ [](\A c \in CheckIds : (status[c] = "None") <=> (evals[c] = 0))
    /\ [][\A c \in CheckIds :
            IF evals'[c] = evals[c]
            THEN status'[c] = status[c]
            ELSE /\ evals'[c] = evals[c] + 1
                 /\ status'[c] = StatusOf(lastOut'[c])]_vars

C2_Witness ==
    /\ evals[3] = 2
    /\ lastOut[3] = "None"
    /\ status[3] = "NOT_APPLICABLE"

Count(list, c) == Cardinality({i \in 1..Len(list) : list[i] = c})

PartitionOf(st) ==
    CASE st = "PASSED"         -> passed
      [] st = "FAILED"         -> failed
      [] st = "NOT_APPLICABLE" -> not_applicable

\* C3: each evaluated record is in exactly one of the lists passed, failed,
\* not_applicable, once, and in the one of its status; a recheck moves it.
C3_OnePartition ==
    \A c \in CheckIds :
        evals[c] > 0 =>
            /\ Count(passed, c) + Count(failed, c) + Count(not_applicable, c) = 1
            /\ Count(PartitionOf(status[c]), c) = 1

(***************************************************************************)
(* Properties of the retry loop of apply_solution                          *)
(***************************************************************************)
RecheckOn(c) == Check_solution(c).recheck = "True"

\* C4: with recheck true one apply_solution call runs the action tree at most
\* 4 times; when no recheck passes and every "Retry?" is accepted the tree has
\* run exactly 4 times, the maximum of tries is reported and apply_solution
\* returns: nothing is raised and check_all goes on with the next solution.
C4_MaxAttempts ==
    /\ [](\A c \in CheckIds :
            /\ execs[c] <= 4
            /\ (RecheckOn(c) /\ exit[c] \notin {"none", "declined", "passed", "retry_declined"})
                  => /\ exit[c] = "max"
                     /\ execs[c] = 4
                     /\ evals[c] = 4
                     /\ prompts[c] = 3)
    /\ [][\A c \in CheckIds :
            (exit[c] = "none" /\ exit'[c] = "max")
                => /\ exception' = exception
                   /\ pc' = IF sidx = Len(available_solutions) THEN "finish" ELSE "apply_prompt"
                   /\ sidx' = sidx + 1]_vars

C4_Witness ==
    /\ exit[1] = "max"
    /\ execs[1] = 4
    /\ status[1] = "FAILED"
    /\ exception = "None"
    /\ pc = "apply_prompt"
    /\ cur = 2

\* C5: with recheck true every run of the action tree is followed by a
\* re-evaluation of the record before apply_solution returns, so the status
\* at the return is that of an evaluation made after the last run, and the
\* maximum of tries is reported only when that evaluation did not pass.
C5_RecheckAfterEveryRun ==
    \A c \in CheckIds :
        (RecheckOn(c) /\ exit[c] # "none" /\ execs[c] > 0) => rechecked[c]

\* C6: with recheck true, when a run of the action tree makes the record's
\* condition evaluate True, the loop converges: the record is re-evaluated to
\* PASSED and apply_solution returns on that.
C6_FixConverges ==
    \A c \in CheckIds :
        (RecheckOn(c) /\ exit[c] # "none" /\ execs[c] > 0 /\ fixed[c])
            => status[c] = "PASSED" /\ exit[c] = "passed"

\* C7: recheck is true when the document omits it; with recheck false
\* apply_solution runs the action tree once and evaluates nothing: no
\* Check.check call, no status and none of the three lists changes while it
\* runs.
C7_NoRecheck ==
    /\ [](\A c \in CheckIds :
            /\ (Policy[c].solution.given /\ Policy[c].solution.recheck = "absent")
                  => RecheckOn(c)
            /\ exit[c] = "loop_end" => (~RecheckOn(c) /\ execs[c] = 1)
            /\ ~RecheckOn(c) => (execs[c] <= 1 /\ evals[c] <= 1 /\ prompts[c] = 0))
    /\ [][(InApplySolution /\ ~RecheckOn(cur))
            => /\ status' = status
               /\ passed' = passed
               /\ failed' = failed
               /\ not_applicable' = not_applicable
               /\ evals' = evals]_vars

C7_Witness ==
    /\ exit[2] = "loop_end"
    /\ execs[2] = 1
    /\ "daemon" \notin host.procs
    /\ status[2] = "FAILED"
    /\ evals[2] = 1
    /\ Count(failed, 2) = 1
    /\ execs[1] = 2

\* C8: once the user has declined "Retry?", no action of the record is executed
\* and the record is not evaluated again; it keeps the status of the recheck
\* that did not pass.
C8_DeclineAborts ==
    /\ [](\A c \in CheckIds :
            retryAnswer[c] = "n"
                => /\ status[c] = StatusOf(lastOut[c])
                   /\ status[c] # "PASSED"
                   /\ rechecked[c]
                   /\ exit[c] # "none")
    /\ [][\A c \in CheckIds :
            retryAnswer'[c] = "n"
                => /\ execs'[c] = execs[c]
                   /\ evals'[c] = evals[c]
                   /\ status'[c] = status[c]]_vars

C8_Witness ==
    /\ retryAnswer[3] = "n"
    /\ execs[3] = 2
    /\ status[3] = "NOT_APPLICABLE"
    /\ pc = "exit"

(***************************************************************************)
(* Properties of the action tree                                           *)
(***************************************************************************)
RECURSIVE ActsIn(_)
\* Every act of a parsed act sequence, the nested ones included.
ActsIn(acts) ==
    UNION { {acts[i]} \cup UNION { ActsIn(acts[i].on_response[k].acts) :
                                      k \in 1..Len(acts[i].on_response) } :
            i \in 1..Len(acts) }

AllActs == UNION { ActsIn(Check_solution(c).acts) : c \in CheckIds }

Calls(id) == {i \in 1..Len(lastRun) : lastRun[i].id = id}

Invoked(id) == Calls(id) # {}

RespOf(id) == lastRun[CHOOSE i \in Calls(id) : TRUE].resp

InterruptedRun == \E i \in 1..Len(lastRun) : lastRun[i].resp = "KeyboardInterrupt"

\* The check whose tree the latest Solution.apply ran.
RanCheck == CHOOSE c \in CheckIds : \E i \in 1..Len(Check_solution(c).acts) :
                                        Check_solution(c).acts[i].id = lastRun[1].id

\* What C9 says of one run of a tree, for the equality eq of a response and a
\* declared value: every act is invoked at most once, every act of the
\* sequence applied once; the acts nested under an entry are invoked exactly
\* when the act returned a value that eq the entry's value.
BranchesOn(eq(_, _)) ==
    /\ \A a \in AllActs : Cardinality(Calls(a.id)) <= 1
    /\ (lastRun # <<>> /\ ~InterruptedRun) =>
          \A i \in 1..Len(Check_solution(RanCheck).acts) :
              Cardinality(Calls(Check_solution(RanCheck).acts[i].id)) = 1
    /\ \A a \in AllActs :
         \A k \in 1..Len(a.on_response) :
            \A b \in ActsIn(a.on_response[k].acts) :
               (\E n \in 1..Len(a.on_response[k].acts) : a.on_response[k].acts[n] = b) =>
                  (Invoked(b.id) <=>
                      /\ Invoked(a.id)
                      /\ RespOf(a.id) # "KeyboardInterrupt"
                      /\ eq(RespOf(a.id), a.on_response[k].value))

Identical(a, b) == a = b

\* C9 as stated: an act applied invokes its primitive once, and a sequence
\* nested under an on_response entry runs if and only if the return value is
\* exactly the entry's declared value, at every depth.
C9_BranchOnExactValue == BranchesOn(Identical)

\* C9 as amended: the same, with the return value and the declared value
\* compared as Python's == compares them, under which True equals 1 and False
\* equals 0.
C9_BranchOnEqualValue == BranchesOn(PyEq)

C9_Witness ==
    /\ Len(lastRun) = 4
    /\ lastRun[2] = [id |-> 2, resp |-> "True"]
    /\ lastRun[3] = [id |-> 3, resp |-> "''"]
    /\ lastRun[4] = [id |-> 4, resp |-> "None"]

(***************************************************************************)
(* Properties of the action registry                                       *)
(***************************************************************************)
\* C20: the action registry is closed: an act, at any depth of the document,
\* whose function is none of execute, confirm, note, choose, nano,
\* set_reboot_required and backup is never resolved to a callable and never
\* invoked during remediation.
C20_ClosedRegistry ==
    ret.done =>
        \A a \in ActsIn(arg.solution.acts) :
            a.function \notin Primitives =>
                /\ decorate(a.function) # "caller"
                /\ \A i \in 1..Len(ret.st.trace) : ret.st.trace[i].id # a.id

(***************************************************************************)
(* Properties of loading the action documents                              *)
(***************************************************************************)
\* Whether an action document is malformed somewhere in its tree: no mapping,
\* no "acts", an act without "function" or with a name that resolves to
\* nothing callable, an on_response entry without "value" or "acts".
RECURSIVE MalformedActs(_)
MalformedActs(acts) ==
    \E i \in 1..Len(acts) :
        \/ "function" \notin DOMAIN acts[i]
        \/ /\ "function" \in DOMAIN acts[i]
           /\ \/ acts[i].function \notin Primitives \cup OtherCallables
              \/ \E k \in 1..Len(acts[i].on_response) :
                    \/ DOMAIN acts[i].on_response[k] # {"value", "acts"}
                    \/ /\ DOMAIN acts[i].on_response[k] = {"value", "acts"}
                       /\ MalformedActs(acts[i].on_response[k].acts)

Malformed(doc) ==
    /\ doc.given
    /\ \/ "acts" \notin DOMAIN doc
       \/ "acts" \in DOMAIN doc /\ MalformedActs(doc.acts)

\* The status the rules of check c give on host h.
LoadStatusOf(c, h) ==
    LET res == Check_rules_check(c, LoadConditions[c], h).res
    IN  CASE res = "True" -> "PASSED" [] res = "False" -> "FAILED"
          [] res = "None" -> "NOT_APPLICABLE"

\* C21: a malformed action document of a check is a local error: once the
\* program is past loading and the first pass (or has ended before), every
\* check is loaded and has the status its rules give, and the check with the
\* malformed document has no available solution.
C21_MalformedIsLocal ==
    (ret.stage \in {"aborted", "evaluated"}
        /\ \E c \in LoadChecks : Malformed(arg.solutions[c]))
    => /\ ret.stage = "evaluated"
       /\ Len(ret.checks) = Len(arg.solutions)
       /\ \A c \in LoadChecks :
            /\ ret.s.status[c] = LoadStatusOf(c, arg.host)
            /\ Malformed(arg.solutions[c]) => ret.checks[c].solution.acts_is_none

(***************************************************************************)
(* Properties of remediation                                               *)
(***************************************************************************)
\* C22: an action of a check is executed only when every loaded check has
\* been evaluated once and has its status, the check ended that first pass
\* FAILED, its solution is available, and the user accepted both "Apply
\* Available Solutions?" and the check's own "Apply?".
C22_ActionsOnlyForOfferedFailures ==
    \A c \in CheckIds :
        execs[c] > 0 =>
            /\ \A k \in CheckIds : evals[k] >= 1 /\ hist.first[k] # "None"
            /\ hist.first[c] = "FAILED"
            /\ Solution_available(c)
            /\ hist.solutions = "y"
            /\ hist.apply[c] = "y"

\* The solutions of two failed checks ran in one run, while a check that
\* passed its first evaluation was left alone.
C22_Witness ==
    /\ execs[1] > 0
    /\ execs[2] > 0
    /\ lastRun # <<>>
    /\ hist.first[3] = "PASSED"
    /\ execs[3] = 0

\* C23: evaluating an aggregator whose condition is none of all, any, none
\* raises for every rule list, the empty one too, before any rule is probed;
\* no tri-state outcome is recorded, the status and the three lists stay as
\* they were, and the run ends with the error re-raised.
C23_BadConditionIsFatal ==
    (ret.stage # "start") =>
        IF arg.condition \in Conditions
        THEN ret.exc = "None" /\ ~ret.reraised /\ ret.s.status[1] # "None"
        ELSE /\ ret.exc = "ValueError"
             /\ ret.probes = <<>>
             /\ ret.s = [status |-> <<"None">>, passed |-> <<>>, failed |-> <<>>,
                         not_applicable |-> <<>>]
             /\ ret.stage \in {"raised", "exit"}
             /\ ret.stage = "exit" => ret.reraised

\* A check with two rules and the condition "sometimes" ended the run.
C23_Witness ==
    /\ ret.stage = "exit"
    /\ arg.condition = "sometimes"
    /\ Len(arg.rules) = 2
    /\ ret.reraised

\* C24: a user interrupt at a prompt inside a remediation attempt (a prompt
\* of the action tree, or "Retry?") ends that attempt only: the run goes on
\* with the next offered check or with the end-of-run reporting.
C24_InterruptEndsAttemptOnly ==
    [][(pc \in {"apply", "retry_prompt"} /\ exception' = "KeyboardInterrupt")
          => pc' \in {"apply_prompt", "finish"}]_vars

\* Whether the latest run of an action tree was left by an error of one of
\* its actions.
ActionError ==
    \E i \in 1..Len(lastRun) : lastRun[i].resp \notin
        {"True", "False", "None", "0", "1", "2", "''", "'err'", "<pipe>", "KeyboardInterrupt"}

\* C25: an error raised while an action of a check's tree is executing is
\* local: at the end of the run no exception is left to stop it and every
\* failed check with an available solution has been offered its "Apply?".
C25_ActionErrorIsLocal ==
    (pc = "exit" /\ ActionError) =>
        /\ exception = "None"
        /\ \A i \in 1..Len(available_solutions) :
              hist.apply[available_solutions[i]] # "unasked"

\* The acts of the loaded policy that mark the reboot as required.
RebootActs == {a.id : a \in {b \in AllActs : b.function = "set_reboot_required"}}

\* C26: the reboot-required flag is false at the start; a step changes it
\* only from false to true, and only a run of an action tree in which a
\* set_reboot_required act was invoked; it is read only once the run is
\* over, when the notice is shown exactly if the flag is set.
C26_RebootFlagWriteOnce ==
    /\ ~reboot_required
    /\ ~notice
    /\ [][/\ reboot_required => reboot_required'
          /\ reboot_required' # reboot_required =>
                /\ pc = "apply"
                /\ \E i \in 1..Len(lastRun') : lastRun'[i].id \in RebootActs
          /\ notice' # notice => pc = "finish"
          /\ pc = "finish" => notice' = reboot_required]_vars

\* The flag was set by the solution of check 2, the solution of check 3 ran
\* after it and the notice was shown at the end of the run.
C26_Witness ==
    /\ pc = "exit"
    /\ reboot_required
    /\ notice
    /\ execs[2] > 0
    /\ execs[3] > 0

(***************************************************************************)
(* Properties of the execution of an action tree                           *)
(***************************************************************************)
\* Every act sequence of a document: the sequence itself and the sequences
\* nested under the on_response entries of its acts, at any depth.
RECURSIVE SeqsIn(_)
SeqsIn(acts) ==
    {acts} \cup UNION { UNION { SeqsIn(acts[i].on_response[k].acts) :
                                   k \in 1..Len(acts[i].on_response) } :
                        i \in 1..Len(acts) }

\* The positions of the trace at which the act id was invoked.
PlanCalls(id) == {i \in 1..Len(ret.st.trace) : ret.st.trace[i].id = id}

PlanInvoked(a) == PlanCalls(a.id) # {}

PlanPos(a) == CHOOSE i \in PlanCalls(a.id) : TRUE

\* C27: when an action tree has been applied and every primitive returned,
\* every act of the top-level sequence was invoked once and no act twice; of a
\* nested sequence either no act was invoked or all of them, and all of them
\* under every entry whose value equals what the act returned; an act's
\* nested acts come after the act itself and before its next sibling,
\* siblings in document order, and the acts of an earlier on_response entry
\* before those of a later one.
C27_DepthFirstInOrder ==
    (ret.done /\ ret.available /\ ret.st.exc = "None") =>
        LET acts == arg.solution.acts
        IN  /\ \A a \in ActsIn(acts) : Cardinality(PlanCalls(a.id)) <= 1
            /\ \A i \in 1..Len(acts) : PlanInvoked(acts[i])
            /\ \A q \in SeqsIn(acts) :
                 /\ (\E i \in 1..Len(q) : PlanInvoked(q[i]))
                        => \A i \in 1..Len(q) : PlanInvoked(q[i])
                 /\ \A i, j \in 1..Len(q) :
                        (i < j /\ PlanInvoked(q[j])) =>
                            \A d \in ActsIn(<<q[i]>>) :
                                PlanInvoked(d) => PlanPos(d) < PlanPos(q[j])
            /\ \A a \in ActsIn(acts) :
                 /\ PlanInvoked(a) =>
                        \A k \in 1..Len(a.on_response) :
                            PyEq(ret.st.trace[PlanPos(a)].resp, a.on_response[k].value)
                                => \A i \in 1..Len(a.on_response[k].acts) :
                                       PlanInvoked(a.on_response[k].acts[i])
                 /\ \A d \in ActsIn(<<a>>) \ {a} :
                        PlanInvoked(d) => PlanPos(a) < PlanPos(d)
                 /\ \A k, l \in 1..Len(a.on_response) :
                        k < l =>
                            \A d \in ActsIn(a.on_response[k].acts),
                               e \in ActsIn(a.on_response[l].acts) :
                                (PlanInvoked(d) /\ PlanInvoked(e))
                                    => PlanPos(d) < PlanPos(e)

\* The three-level tree ran whole: the confirm answered True ran both of its
\* matching entries in turn, the nested confirm was declined and the execute
\* acts after it were declined too, and every sibling after them was invoked.
C27_Witness ==
    /\ ret.done
    /\ ret.available
    /\ ret.st.exc = "None"
    /\ ret.st.trace =
         << [id |-> 50, resp |-> "True"], [id |-> 51, resp |-> "None"],
            [id |-> 52, resp |-> "False"], [id |-> 53, resp |-> "None"],
            [id |-> 54, resp |-> "''"], [id |-> 55, resp |-> "None"],
            [id |-> 56, resp |-> "''"], [id |-> 57, resp |-> "None"] >>
    /\ ret.st.host = arg.host
    /\ arg.host.fs["conf"] = "absent"

(***************************************************************************)
(* Properties of the retry loop                                            *)
(***************************************************************************)
\* C28: in the retry loop a re-evaluation that ends NotApplicable does not
\* end the loop: the status becomes NOT_APPLICABLE and "Retry?" is asked; when
\* the user accepts, the action tree is run once more.
C28_NotApplicableRecheckRetries ==
    /\ [][(pc = "recheck" /\ evals'[cur] = evals[cur] + 1 /\ lastOut'[cur] = "None")
            => /\ status'[cur] = "NOT_APPLICABLE"
               /\ pc' = "retry_prompt"
               /\ exit' = exit]_vars
    /\ [][(pc = "retry_prompt" /\ lastOut[cur] = "None"
              /\ prompts'[cur] = prompts[cur] + 1 /\ retryAnswer'[cur] = "y")
            => /\ pc' = "apply"
               /\ retry < MaxTries]_vars
    /\ [][(pc = "apply" /\ retry >= 1 /\ lastOut[cur] = "None" /\ pc' # pc)
            => /\ execs'[cur] = execs[cur] + 1
               /\ lastRun' # <<>>]_vars

\* A check was re-evaluated as NotApplicable, the user accepted "Retry?" and
\* the action tree has run again.
C28_Witness ==
    \E c \in CheckIds :
        /\ execs[c] >= 2
        /\ lastOut[c] = "None"
        /\ status[c] = "NOT_APPLICABLE"
        /\ retryAnswer[c] = "y"
        /\ ~rechecked[c]

(***************************************************************************)
(* Properties of the aggregator under reordering                           *)
(***************************************************************************)
\* The orders in which a list of n outcomes can stand.
Orders(n) == {p \in [1..n -> 1..n] : \A i, j \in 1..n : i # j => p[i] # p[j]}

Reordered(outs, p) == [i \in 1..Len(outs) |-> outs[p[i]]]

\* C29: for all, any and none, Rules.check returns the same aggregate for
\* every order of the same list of rule outcomes.
C29_OrderIndependent ==
    (ret.done /\ arg.condition \in Conditions) =>
        \A p \in Orders(Len(arg.outs)) :
            Rules_check(arg.condition, Reordered(arg.outs, p)).res = ret.val

\* A list whose decisive outcome stands last, so that its orders differ in
\* where the loop returns.
C29_Witness ==
    /\ ret.done
    /\ arg.condition = "any"
    /\ arg.outs = <<"None", "False", "True">>
    /\ ret.val = "True"
    /\ Rules_check("any", <<"True", "None", "False">>).probed = 1
    /\ Rules_check("any", arg.outs).probed = 3

\* The "Execute?" prompts shown for the act id.
PlanAsked(id) == {i \in 1..Len(ret.st.asked) : ret.st.asked[i].id = id}

\* C30: an execute act whose document sets no `ask` asks before it runs: each
\* time it is invoked one prompt showing its command is answered; the
\* command runs only on "yes"; on "no" it does not run, the act returns the
\* empty string and the act after it in its sequence is invoked.
C30_ExecuteAsksByDefault ==
    (ret.done /\ ret.available) =>
        \A q \in SeqsIn(arg.solution.acts) : \A n \in 1..Len(q) :
            (q[n].function = "execute" /\ q[n].ask = "absent" /\ PlanInvoked(q[n])) =>
                /\ Cardinality(PlanAsked(q[n].id)) = 1
                /\ \A i \in PlanAsked(q[n].id) :
                     LET e == ret.st.asked[i]
                     IN  /\ e.prompt = q[n].cmd
                         /\ e.ran => e.answer = "y"
                         /\ e.answer = "n" =>
                              /\ ~e.ran
                              /\ ret.st.trace[PlanPos(q[n])].resp = "''"
                              /\ n < Len(q) => PlanInvoked(q[n + 1])

\* The user declined every "Execute?" of the three-level tree: the host is as
\* it was, without the file the commands would have made, and the note after
\* the last declined execute was shown.
C30_Witness ==
    /\ ret.done
    /\ ret.available
    /\ \E i \in PlanAsked(56) : ret.st.asked[i].answer = "n" /\ ~ret.st.asked[i].ran
    /\ \A i \in 1..Len(ret.st.asked) : ret.st.asked[i].answer = "n"
    /\ \E i \in 1..Len(ret.st.trace) : ret.st.trace[i] = [id |-> 56, resp |-> "''"]
    /\ \E i \in 1..Len(ret.st.trace) : ret.st.trace[i].id = 57
    /\ arg.host.fs["conf"] = "absent"
    /\ ret.st.host = arg.host

====
